---- MODULE Spec2Model ----
(***************************************************************************)
(* Quota-aware fetch and commit orchestrator (lebedev-ilia/dop).           *)
(*                                                                         *)
(* Part 1: the credential pool and the classified fetch client of          *)
(*         src/_get_base_info_yt_api.py.                                   *)
(* Part 2: the batch scheduler of src/main_yt_api.py: its checkpoint, its   *)
(*         batches, its artifact files and its stall detection.            *)
(* Part 3: the commit-batching uploader of src/main_yt_api_hf.py.          *)
(***************************************************************************)
EXTENDS Integers, Sequences, FiniteSets, TLC

(***************************************************************************)
(* Bounds of the model.                                                    *)
(***************************************************************************)
\* size of the credential list in the concurrent specification, and the
\* largest size in the sequential one
NKeys == 3
\* worker threads of the concurrent specification
NWorkers == 2
\* items fetched in one behaviour of Spec, and by the caller of SpecSeq
\* whose credentials answer anything
MaxCalls == 2
\* largest `retries` argument a direct caller passes in SpecSeq
MaxRetries == 4
\* paginated requests one _fetch_top_comments call may issue
MaxPages == 1
\* items fetched one after another in the scenario of SpecSeq
NItems == 5
\* locators of the work list in SpecCkpt
NUrls == 2
\* locators of the work list in SpecSched
NWork == 4
\* batch_size of the scheduler (16 in the source)
BatchSize == 2
\* largest batch number of an artifact file found on disk by the first run
MaxOldBatch == 2
\* times the scheduler process is killed in one behaviour
MaxCrashes == 1
\* artifact files the scheduler writes while the uploader runs
MaxArtifacts == 3
\* the uploader starts at time Epoch; MaxTicks later the clock is at its horizon
Epoch == 10
MaxTicks == 1
\* LOAD_BATCHES_TRESHOLD (5 in the source)
LOAD_BATCHES_TRESHOLD == 2
\* COMMIT_MIN_BATCHES (50 in the source) where it is the discovery threshold;
\* SpecStart has it one above
MinBatches == 2
\* COMMIT_MAX_BATCHES (60 in the source)
COMMIT_MAX_BATCHES == 2
\* COMMIT_MAX_WAIT_SEC (300 s in the source), in ticks
COMMIT_MAX_WAIT == 2
\* MAX_COMMITS_PER_HOUR (100 in the source)
MAX_COMMITS_PER_HOUR == 2
\* the hour of the commit journal (3600 s in the source), in ticks
HOUR_TICKS == 4
\* MAX_FILES_PER_COMMIT of HuggingFaceUploader (300 in the source)
MAX_FILES_PER_COMMIT == 4
\* the size up to which a rejected commit is uploaded file by file (50 in the
\* source)
SPLIT_FLOOR == 1
\* files of one upload_metadata_batch call in SpecSplit
MaxFiles == 5
\* video ids that occur in the artifact files of SpecMat
MaxVideos == 3
\* the cap on the workers of a batch's ThreadPoolExecutor (4 in the source)
WorkerCap == 2

(***************************************************************************)
(* Program constants.                                                      *)
(***************************************************************************)
DefaultRetries == 2
BackoffStartMs == 500
BackoffCapMs == 2000
MAX_EMPTY_BATCHES == 3

VARIABLES
    nKeys,              \* len(_get_api_keys()), fixed once loaded
    current_key_index,  \* _current_key_index
    exhausted_keys,     \* _exhausted_keys
    quota_used_by_key,  \* _quota_used_by_key, a dict: absent keys are not in DOMAIN
    quota_used,         \* quota_used
    profile,            \* the upstream behaviour of each credential
    thr,                \* each thread's position in fetch_from_youtube_api
    itemsLeft,          \* items the callers have still to fetch
    switchCalls,        \* _switch_to_next_key calls made, capped at nKeys
    flat_video_list,    \* the work list of main(): a sequence of locators
    progressFile,       \* progress.json on disk
    processed_urls,     \* processed_urls of main()
    runPc,              \* where main() is
    batches,            \* the batches main() has still to dispatch
    inflight,           \* items of the current batch whose future is not collected
    persisted,          \* locators a completed save_progress has written
    batch_size,         \* batch_size of main()
    resultsDir,         \* the names of the files in _yt_api/.results
    legacyDir,          \* the names of the files in results/yt_api
    existing_batch_idx, \* existing_batch_idx of main()
    batch_index,        \* batches dispatched so far: i + 1 of the enumerate loop
    batch_num,          \* batch_num as assigned at the top of the loop body
    batch,              \* the batch being processed
    results,            \* locators of the current batch whose data is not empty
    failed,             \* locators whose fetch this run returned {}
    empty_batches_count,\* empty_batches_count of main()
    batches_index,      \* batches_index of main()
    combined_results,   \* the keys of combined_results, as locators
    aggregate,          \* yt_api_aggregate.json on disk
    forceCalls,         \* force_switch_key calls this run
    halted,             \* the loop was left by break
    loaded,             \* what load_progress returned to this run
    crashes,            \* times the scheduler process was killed
    dirAtInit,          \* the names in both artifact directories when this run began
    upPc,               \* where the uploader's main() is
    clock,              \* time.time(), in ticks
    now,                \* now of the uploader's loop body
    success_batchs,     \* success_batchs
    progressUpload,     \* progress_upload.json on disk
    pending_batches,    \* pending_batches
    last_commit_ts,     \* last_commit_ts
    recent_commit_ts,   \* recent_commit_ts
    should_commit,      \* should_commit
    commits_left,       \* commits_left
    batches_to_process, \* batches_to_process
    processed_batches,  \* processed_batches
    current_batch_chunk,\* current_batch_chunk
    files_to_upload,    \* len(files_to_upload)
    upload,             \* what the latest upload_metadata_batch call of this iteration did
    keepLog,            \* whether the requests of an upload call are recorded in upload.log
    writingFiles,       \* artifact files open for writing
    truncatedFiles,     \* artifact files left incomplete by a killed scheduler
    batch_data,         \* the video ids under "videos" in each artifact file read
    current_repo_files, \* uploader.current_repo_files, the cached listing of the remote store
    temp_dir,           \* the files written to temp_dir for upload_folder
    COMMIT_MIN_BATCHES  \* COMMIT_MIN_BATCHES of the uploader's main()

poolVars == <<nKeys, current_key_index, exhausted_keys, quota_used_by_key, quota_used>>
fetchVars == <<poolVars, profile, thr, itemsLeft, switchCalls>>
callVars == <<profile, thr, itemsLeft>>
schedVars == <<flat_video_list, progressFile, processed_urls, runPc, batches, inflight,
               persisted, batch_size, resultsDir, legacyDir, existing_batch_idx,
               batch_index, batch_num, batch, results, failed, empty_batches_count,
               batches_index, combined_results, aggregate, forceCalls, halted, loaded,
               crashes, dirAtInit>>
loopVars == <<upPc, clock, now, success_batchs, progressUpload, pending_batches,
              last_commit_ts, recent_commit_ts, should_commit, commits_left,
              batches_to_process, processed_batches, current_batch_chunk,
              files_to_upload, upload, keepLog>>
matVars == <<batch_data, current_repo_files, temp_dir>>
upVars == <<loopVars, writingFiles, truncatedFiles, matVars, COMMIT_MIN_BATCHES>>

Threads == 1..NWorkers

Min(S) == CHOOSE x \in S : \A y \in S : x <= y

Range(f) == {f[i] : i \in DOMAIN f}

(***************************************************************************)
(* Exceptions and their classification.                                    *)
(***************************************************************************)
OK == [cls |-> "ok", status |-> 200, kw |-> FALSE]

\* an HttpError: its status, and whether its text holds "quota" or "exceeded"
HttpErrors ==
    {[cls |-> "HttpError", status |-> 403, kw |-> FALSE],
     [cls |-> "HttpError", status |-> 429, kw |-> FALSE],
     [cls |-> "HttpError", status |-> 500, kw |-> FALSE],
     [cls |-> "HttpError", status |-> 500, kw |-> TRUE]}

OtherErrors == [cls : {"SSLError"}, status : {0}, kw : {FALSE}]

RuntimeError == [cls |-> "RuntimeError", status |-> 0, kw |-> FALSE]

\* isinstance(e, c) for the classes the handlers name
IsInstance(e, c) ==
    \/ c = e.cls
    \/ c = "Exception" /\ e.cls \in {"HttpError", "SSLError", "RuntimeError"}

is_quota_error(e) ==
    IF IsInstance(e, "HttpError")
    THEN e.status \in {429, 403} \/ e.kw
    ELSE FALSE

\* what the upstream source may answer to a request made with credential k
Outcomes(k) ==
    CASE profile[k] = "quota" -> {e \in HttpErrors : is_quota_error(e)}
      [] profile[k] = "ok" -> {OK}
      [] OTHER -> {OK} \cup HttpErrors \cup OtherErrors

(***************************************************************************)
(* Credential pool.                                                        *)
(***************************************************************************)
\* the indices the scan of _switch_to_next_key looks at
ScanRange_offByOne == 0..(nKeys - 2)

ScanRange == 0..(nKeys - 1)

\* _exhausted_keys after the add
MarkedExhausted_replace == {current_key_index}

MarkedExhausted == exhausted_keys \cup {current_key_index}

\* the indices the scan can select
Available(ex) == {i \in ScanRange : i \notin ex}

\* "for i in range(len(api_keys)): if i not in _exhausted_keys": the index the
\* scan stops at
FirstAvailable_last(ex) == CHOOSE x \in Available(ex) : \A y \in Available(ex) : y <= x

FirstAvailable(ex) == Min(Available(ex))

\* _switch_to_next_key: ok is its return value
switch_to_next_key(ok) ==
    /\ exhausted_keys' = MarkedExhausted
    /\ ok = (Available(MarkedExhausted) # {})
    /\ current_key_index' =
           IF Available(MarkedExhausted) # {}
           THEN FirstAvailable(MarkedExhausted)
           ELSE current_key_index
    /\ switchCalls' = IF switchCalls < nKeys THEN switchCalls + 1 ELSE switchCalls
    /\ UNCHANGED <<nKeys, quota_used_by_key, quota_used>>

\* get_youtube_service: the credential the service is built with (key), or the
\* exception raised (exc)
get_youtube_service ==
    IF nKeys = 0 THEN [raised |-> TRUE, key |-> -1, exc |-> RuntimeError]
    ELSE IF current_key_index >= nKeys THEN [raised |-> TRUE, key |-> -1, exc |-> RuntimeError]
    ELSE [raised |-> FALSE, key |-> current_key_index, exc |-> OK]

\* _consume_quota(units)
consume_quota_overwrite(units) ==
    /\ quota_used' = quota_used + units
    /\ quota_used_by_key' =
           [k \in DOMAIN quota_used_by_key \cup {current_key_index} |->
               IF k = current_key_index THEN units ELSE quota_used_by_key[k]]
    /\ UNCHANGED <<nKeys, current_key_index, exhausted_keys, switchCalls>>

consume_quota(units) ==
    /\ quota_used' = quota_used + units
    /\ quota_used_by_key' =
           [k \in DOMAIN quota_used_by_key \cup {current_key_index} |->
               IF k = current_key_index
               THEN (IF k \in DOMAIN quota_used_by_key THEN quota_used_by_key[k] ELSE 0) + units
               ELSE quota_used_by_key[k]]
    /\ UNCHANGED <<nKeys, current_key_index, exhausted_keys, switchCalls>>

are_all_keys_exhausted ==
    IF nKeys > 0 THEN Cardinality(exhausted_keys) >= nKeys ELSE TRUE


(***************************************************************************)
(* fetch_from_youtube_api, one thread's call.  A step is one critical      *)
(* section of the rotation lock together with the request to the upstream  *)
(* source that precedes it: the request itself reads no shared state.      *)
(***************************************************************************)
IdleThread ==
    [pc |-> "idle", svc |-> -1, retries |-> 0, backoff |-> 0, pages |-> 0,
     result |-> "none",
     \* what the call has done so far, recorded when the caller traces it
     traced |-> FALSE, retries0 |-> 0, attempts |-> 0, sleeps |-> <<>>, nTransient |-> 0,
     nQuota |-> 0, gotItem |-> FALSE, nPrimary |-> 0]

Set(t, r) == thr' = [thr EXCEPT ![t] = r]

\* r with the record h of what it has done, for a traced call
Note(r, h) == IF r.traced THEN h ELSE r

NoPool == UNCHANGED <<poolVars, switchCalls>>

\* return {} / return result: the locals of the call are gone
Return(r, res) ==
    [r EXCEPT !.pc = "done", !.result = res, !.svc = -1, !.retries = 0,
              !.backoff = 0, !.pages = 0]

\* the recursive call fetch_from_youtube_api(video_id, service=None, retries, backoff_sec)
Recurse(r, retries, backoff) ==
    [r EXCEPT !.pc = "enter", !.svc = -1, !.retries = retries, !.backoff = backoff,
              !.pages = 0]

\* min(2.0, backoff_sec*2)
NextBackoff_noDouble(b) == b

NextBackoff(b) == IF 2 * b < BackoffCapMs THEN 2 * b ELSE BackoffCapMs

\* "if retries > 0: time.sleep(backoff_sec); return fetch(..., retries-1, ...)"
\* and "return {}"
RetryOrGiveUp_keeps(r) ==
    IF r.retries > 0
    THEN Recurse(Note(r, [r EXCEPT !.sleeps = Append(@, r.backoff), !.nTransient = @ + 1]),
                 r.retries, NextBackoff(r.backoff))
    ELSE Return(Note(r, [r EXCEPT !.nTransient = @ + 1]), "empty")

RetryOrGiveUp(r) ==
    IF r.retries > 0
    THEN Recurse(Note(r, [r EXCEPT !.sleeps = Append(@, r.backoff), !.nTransient = @ + 1]),
                 r.retries - 1, NextBackoff(r.backoff))
    ELSE Return(Note(r, [r EXCEPT !.nTransient = @ + 1]), "empty")

\* "return fetch_from_youtube_api(video_id, service=None, retries=retries,
\* backoff_sec=backoff_sec)" after a rotation
RotateRetry_consumes(r) == Recurse(r, r.retries - 1, r.backoff)

RotateRetry(r) == Recurse(r, r.retries, r.backoff)

\* the except clauses of the outer try, in order: what is done with e
OuterClause_noGeneric(e) ==
    IF IsInstance(e, "HttpError")
    THEN (IF is_quota_error(e) THEN "rotate" ELSE "retry")
    ELSE IF IsInstance(e, "SSLError")
    THEN "retry"
    ELSE "raise"

OuterClause(e) ==
    IF IsInstance(e, "HttpError")
    THEN (IF is_quota_error(e) THEN "rotate" ELSE "retry")
    ELSE IF IsInstance(e, "SSLError") \/ IsInstance(e, "Exception")
    THEN "retry"
    ELSE "raise"

\* exception e reaches the outer try of thread t, whose record is r
Fail(t, r, e) ==
    CASE OuterClause(e) = "rotate" ->
             \E ok \in BOOLEAN :
                /\ switch_to_next_key(ok)
                /\ Set(t, IF ok
                          THEN RotateRetry(Note(r, [r EXCEPT !.nQuota = @ + 1]))
                          ELSE Return(Note(r, [r EXCEPT !.nQuota = @ + 1]), "empty"))
      [] OuterClause(e) = "retry" -> NoPool /\ Set(t, RetryOrGiveUp(r))
      [] OTHER -> NoPool /\ Set(t, Return(r, "raised"))

\* the inner "except Exception: pass" of an optional sub-request
InnerClause_onlyHttp(e) ==
    IF IsInstance(e, "HttpError") THEN "pass" ELSE "raise"

InnerClause(e) ==
    IF IsInstance(e, "Exception") THEN "pass" ELSE "raise"

\* the except clauses around the first try of an optional sub-request
SubClause(e) ==
    IF IsInstance(e, "HttpError")
    THEN (IF is_quota_error(e) THEN "rotate" ELSE "pass")
    ELSE InnerClause(e)

\* result['timings_youtube_api'] = timings; return result
Finish(r) == Return(r, "populated")

\* a caller starts fetch_from_youtube_api(video_id, retries=retries)
Call(t, retries, traced) ==
    /\ thr[t].pc \in {"idle", "done"}
    /\ itemsLeft > 0
    /\ itemsLeft' = itemsLeft - 1
    /\ Set(t, [IdleThread EXCEPT !.pc = "enter", !.retries = retries,
                                 !.backoff = BackoffStartMs, !.traced = traced,
                                 !.retries0 = IF traced THEN retries ELSE 0])
    /\ UNCHANGED <<poolVars, profile, switchCalls>>

\* the scheduler's worker: fetch_from_youtube_api(video_id)
WorkerCall(t) == Call(t, DefaultRetries, FALSE)

\* service = get_youtube_service()
GetService(t) ==
    /\ thr[t].pc = "enter"
    /\ LET r == Note(thr[t], [thr[t] EXCEPT !.attempts = @ + 1])
           s == get_youtube_service
       IN  IF s.raised THEN Fail(t, r, s.exc)
           ELSE NoPool /\ Set(t, [r EXCEPT !.pc = "primary", !.svc = s.key])
    /\ UNCHANGED <<profile, itemsLeft>>

\* service.videos().list(...).execute(); _consume_quota(1, "videos.list");
\* "if not video_response.get('items'): return {}"; the field mapping
Primary(t) ==
    /\ thr[t].pc = "primary"
    /\ \E o \in Outcomes(thr[t].svc) :
          LET r == Note(thr[t], [thr[t] EXCEPT !.nPrimary = @ + 1])
          IN  IF o = OK
              THEN /\ consume_quota(1)
                   /\ \E resp \in {"empty", "item", "item_channel"} :
                         Set(t, CASE resp = "empty" -> Return(r, "empty")
                                  [] resp = "item_channel" ->
                                         Note([r EXCEPT !.pc = "channel"],
                                              [r EXCEPT !.pc = "channel", !.gotItem = TRUE])
                                  [] OTHER ->
                                         Note([r EXCEPT !.pc = "comments"],
                                              [r EXCEPT !.pc = "comments", !.gotItem = TRUE]))
              ELSE Fail(t, r, o)
    /\ UNCHANGED <<profile, itemsLeft>>

\* service.channels().list(...).execute() with its _consume_quota(1), or its
\* except clauses: on a quota error "if _switch_to_next_key():"
Channel(t) ==
    /\ thr[t].pc = "channel"
    /\ \E o \in Outcomes(thr[t].svc) :
          IF o = OK
          THEN consume_quota(1) /\ Set(t, [thr[t] EXCEPT !.pc = "comments"])
          ELSE CASE SubClause(o) = "rotate" ->
                        \E ok \in BOOLEAN :
                           /\ switch_to_next_key(ok)
                           /\ Set(t, [thr[t] EXCEPT !.pc = IF ok THEN "channel_service"
                                                        ELSE "comments"])
                 [] SubClause(o) = "pass" ->
                        NoPool /\ Set(t, [thr[t] EXCEPT !.pc = "comments"])
                 [] OTHER -> Fail(t, thr[t], o)
    /\ UNCHANGED <<profile, itemsLeft>>

\* service = get_youtube_service() of the channel retry
ChannelService(t) ==
    /\ thr[t].pc = "channel_service"
    /\ LET s == get_youtube_service
       IN  IF s.raised
           THEN (IF InnerClause(s.exc) = "pass"
                 THEN NoPool /\ Set(t, [thr[t] EXCEPT !.pc = "comments"])
                 ELSE Fail(t, thr[t], s.exc))
           ELSE NoPool /\ Set(t, [thr[t] EXCEPT !.pc = "channel_retry", !.svc = s.key])
    /\ UNCHANGED <<profile, itemsLeft>>

\* the retried channels().list under the new credential
ChannelRetry_again(t) ==
    /\ thr[t].pc = "channel_retry"
    /\ \E o \in Outcomes(thr[t].svc) :
          IF o = OK
          THEN consume_quota(1) /\ Set(t, [thr[t] EXCEPT !.pc = "comments"])
          ELSE CASE SubClause(o) = "rotate" ->
                        \E ok \in BOOLEAN :
                           /\ switch_to_next_key(ok)
                           /\ Set(t, [thr[t] EXCEPT !.pc = IF ok THEN "channel_service"
                                                        ELSE "comments"])
                 [] SubClause(o) = "pass" ->
                        NoPool /\ Set(t, [thr[t] EXCEPT !.pc = "comments"])
                 [] OTHER -> Fail(t, thr[t], o)
    /\ UNCHANGED <<profile, itemsLeft>>

ChannelRetry(t) ==
    /\ thr[t].pc = "channel_retry"
    /\ \E o \in Outcomes(thr[t].svc) :
          IF o = OK
          THEN consume_quota(1) /\ Set(t, [thr[t] EXCEPT !.pc = "comments"])
          ELSE IF InnerClause(o) = "pass"
          THEN NoPool /\ Set(t, [thr[t] EXCEPT !.pc = "comments"])
          ELSE Fail(t, thr[t], o)
    /\ UNCHANGED <<profile, itemsLeft>>

\* after a page of _fetch_top_comments: the next page, or the comments are done
AfterPage(r, more) ==
    IF more THEN [r EXCEPT !.pages = @ + 1] ELSE Finish(r)

\* one paginated request of _fetch_top_comments (commentThreads().list or
\* comments().list) with its _consume_quota(1), or the except clauses around
\* the call
Comments(t) ==
    /\ thr[t].pc = "comments"
    /\ \E o \in Outcomes(thr[t].svc) :
          IF o = OK
          THEN /\ consume_quota(1)
               /\ \E more \in BOOLEAN :
                     /\ more => thr[t].pages + 1 < MaxPages
                     /\ Set(t, AfterPage(thr[t], more))
          ELSE CASE SubClause(o) = "rotate" ->
                        \E ok \in BOOLEAN :
                           /\ switch_to_next_key(ok)
                           /\ Set(t, IF ok
                                     THEN [thr[t] EXCEPT !.pc = "comments_service",
                                                         !.pages = 0]
                                     ELSE Finish(thr[t]))
                 [] SubClause(o) = "pass" -> NoPool /\ Set(t, Finish(thr[t]))
                 [] OTHER -> Fail(t, thr[t], o)
    /\ UNCHANGED <<profile, itemsLeft>>

\* service = get_youtube_service() of the comments retry
CommentsService(t) ==
    /\ thr[t].pc = "comments_service"
    /\ LET s == get_youtube_service
       IN  IF s.raised
           THEN (IF InnerClause(s.exc) = "pass"
                 THEN NoPool /\ Set(t, Finish(thr[t]))
                 ELSE Fail(t, thr[t], s.exc))
           ELSE NoPool /\ Set(t, [thr[t] EXCEPT !.pc = "comments_retry", !.svc = s.key])
    /\ UNCHANGED <<profile, itemsLeft>>

\* a paginated request of the retried _fetch_top_comments
CommentsRetry(t) ==
    /\ thr[t].pc = "comments_retry"
    /\ \E o \in Outcomes(thr[t].svc) :
          IF o = OK
          THEN /\ consume_quota(1)
               /\ \E more \in BOOLEAN :
                     /\ more => thr[t].pages + 1 < MaxPages
                     /\ Set(t, AfterPage(thr[t], more))
          ELSE IF InnerClause(o) = "pass"
          THEN NoPool /\ Set(t, Finish(thr[t]))
          ELSE Fail(t, thr[t], o)
    /\ UNCHANGED <<profile, itemsLeft>>

\* the scheduler between two batches, when no worker is running: after empty
\* batches, "if are_all_keys_exhausted(): break / else: force_switch_key()"
ForceSwitch ==
    /\ \A t \in Threads : thr[t].pc \in {"idle", "done"}
    /\ ~are_all_keys_exhausted
    /\ \E ok \in BOOLEAN : switch_to_next_key(ok)
    /\ UNCHANGED <<profile, thr, itemsLeft>>

(***************************************************************************)
(* The batch scheduler, main() of main_yt_api.py.                          *)
(* A locator is a number; locators are ordered as the strings they stand   *)
(* for.  A fetch is the worker's answer: a record (success) or {}.         *)
(***************************************************************************)
Urls == 1..NUrls

\* progress.json: no file, a file opened for writing whose JSON text is not
\* (all) there, or a complete JSON text
NoFile == [state |-> "absent", processed_urls |-> <<>>, count |-> 0]

PartialFile == [state |-> "partial", processed_urls |-> <<>>, count |-> 0]

JsonFile(payload) ==
    [state |-> "json", processed_urls |-> payload.processed_urls, count |-> payload.count]

RECURSIVE InsertSorted(_, _)
InsertSorted(x, l) ==
    IF l = <<>> THEN <<x>>
    ELSE IF x <= Head(l) THEN <<x>> \o l
    ELSE <<Head(l)>> \o InsertSorted(x, Tail(l))

\* sorted(...)
sorted_unsorted(l) == l

RECURSIVE sorted(_)
sorted(l) ==
    IF l = <<>> THEN <<>> ELSE InsertSorted(Head(l), sorted(Tail(l)))

\* list(processed): the elements of a set in one of its iteration orders
RECURSIVE Listings(_)
Listings(S) ==
    IF S = {} THEN {<<>>}
    ELSE UNION {{<<x>> \o l : l \in Listings(S \ {x})} : x \in S}

\* the payload save_progress dumps, from list(processed)
Payload(listing) ==
    [processed_urls |-> sorted(listing), count |-> Len(listing)]

\* load_progress(path): any failure to read or parse gives set()
load_progress(f) ==
    IF f.state = "json" THEN Range(f.processed_urls) ELSE {}

\* [(cat, url) for (cat, url) in flat_video_list if url not in processed_urls]
Filter_keepAll(l, done) == l

RECURSIVE Filter(_, _)
Filter(l, done) ==
    IF l = <<>> THEN <<>>
    ELSE IF Head(l) \in done THEN Filter(Tail(l), done)
    ELSE <<Head(l)>> \o Filter(Tail(l), done)

\* list(batchify(lst, batch_size))
batchify_oneBig(lst, size) == IF lst = <<>> THEN <<>> ELSE <<lst>>

RECURSIVE batchify_fullOnly(_, _)
batchify_fullOnly(lst, size) ==
    IF Len(lst) < size \/ lst = <<>> THEN <<>>
    ELSE <<SubSeq(lst, 1, size)>>
             \o batchify_fullOnly(SubSeq(lst, size + 1, Len(lst)), size)

RECURSIVE batchify(_, _)
batchify(lst, size) ==
    IF lst = <<>> THEN <<>>
    ELSE IF Len(lst) <= size THEN <<lst>>
    ELSE <<SubSeq(lst, 1, size)>> \o batchify(SubSeq(lst, size + 1, Len(lst)),
                                                   size)

(***************************************************************************)
(* Artifact files.  A file name is the sequence of its characters.         *)
(***************************************************************************)
DigitChars == <<"0", "1", "2", "3", "4", "5", "6", "7", "8", "9">>

\* str(n) of a non-negative int, as f"...{batch_num}..." formats it
RECURSIVE str(_)
str(n) ==
    IF n < 10 THEN <<DigitChars[n + 1]>>
    ELSE str(n \div 10) \o <<DigitChars[(n % 10) + 1]>>

\* f"batch_{batch_num}.json"
BatchFileName(num) ==
    <<"b", "a", "t", "c", "h", "_">> \o str(num) \o <<".", "j", "s", "o", "n">>

NoMatch == <<>>

\* re.match(r"batch_(\\d+)\\.json$", fname): group(1), or NoMatch.  In the raw
\* string both backslashes of "\\" reach the pattern, where "\\" is a literal
\* backslash: the pattern is "batch_", a backslash, one or more letters d, a
\* backslash, any character, "json", the end.
re_match(fname) ==
    LET k == Len(fname) - 13
    IN  IF /\ k >= 1
           /\ SubSeq(fname, 1, 6) = <<"b", "a", "t", "c", "h", "_">>
           /\ fname[7] = "\\"
           /\ \A j \in 8..(7 + k) : fname[j] = "d"
           /\ fname[8 + k] = "\\"
           /\ SubSeq(fname, 10 + k, 13 + k) = <<"j", "s", "o", "n">>
        THEN SubSeq(fname, 7, 7 + k)
        ELSE NoMatch

IsDigits(s) == s # <<>> /\ \A j \in 1..Len(s) : s[j] \in Range(DigitChars)

\* int(s) of a string of decimal digits
RECURSIVE int(_)
int(s) ==
    IF s = <<>> THEN 0
    ELSE 10 * int(SubSeq(s, 1, Len(s) - 1))
           + (CHOOSE d \in 0..9 : DigitChars[d + 1] = s[Len(s)])

Max(S) == CHOOSE x \in S : \A y \in S : y <= x

\* _scan_batches_in_dir(path): the largest int(m.group(1)) over the names
\* that match; a name whose group is no number raises ValueError and is
\* skipped; 0 when there is none
scan_batches_in_dir(dir) ==
    Max({0} \cup {int(re_match(fname)) : fname \in {f \in dir : IsDigits(re_match(f))}})

\* "while os.path.exists(per_batch_path): batch_num += 1"
RECURSIVE FreeNumber(_, _)
FreeNumber(num, dir) ==
    IF BatchFileName(num) \in dir THEN FreeNumber(num + 1, dir) ELSE num

NoAggregate == [state |-> "absent", batches |-> <<>>, videos |-> {}]

\* "if data and video_id:" processed_urls.add(video_url)
AddIfSuccess_always(processed, u, success) == processed \cup {u}

AddIfSuccess(processed, u, success) ==
    IF success THEN processed \cup {u} ELSE processed

\* "if success_count > 0:" the batch's artifact is written
WritesArtifact_always(success_count) == success_count >= 0

WritesArtifact(success_count) == success_count > 0

\* "if empty_batches_count >= MAX_EMPTY_BATCHES:"
StallReached_late(count) == count > MAX_EMPTY_BATCHES

StallReached(count) == count >= MAX_EMPTY_BATCHES

\* break: the loop is left and main() goes on to write the aggregate
AfterBreak_exit == "finished"

AfterBreak == "finalize"

\* a new process: the rotation state of the module is as loaded
FreshPool ==
    /\ current_key_index' = 0
    /\ exhausted_keys' = {}
    /\ switchCalls' = 0
    /\ UNCHANGED <<nKeys, quota_used_by_key, quota_used>>

\* main() up to the loop over the batches: scan the artifact directories,
\* load the checkpoint, filter, batch
StartRun ==
    /\ runPc \in {"init", "crashed", "finished"}
    /\ FreshPool
    /\ existing_batch_idx' =
           Max({0, scan_batches_in_dir(resultsDir), scan_batches_in_dir(legacyDir)})
    /\ processed_urls' = load_progress(progressFile)
    /\ loaded' = load_progress(progressFile)
    /\ batches' = batchify(Filter(flat_video_list, load_progress(progressFile)), batch_size)
    /\ batch_index' = 0
    /\ batch_num' = 0
    /\ batch' = <<>>
    /\ inflight' = {}
    /\ results' = {}
    /\ failed' = {}
    /\ empty_batches_count' = 0
    /\ batches_index' = <<>>
    /\ combined_results' = {}
    /\ forceCalls' = 0
    /\ halted' = FALSE
    /\ runPc' = "dispatch"
    /\ dirAtInit' = resultsDir \cup legacyDir
    /\ UNCHANGED <<flat_video_list, batch_size, progressFile, persisted, resultsDir,
                   legacyDir, aggregate, crashes>>

\* "for i, batch in enumerate(batches)": batch_num = existing_batch_idx + i + 1
\* and one task per item of the batch is submitted to the executor
Dispatch ==
    /\ runPc = "dispatch"
    /\ batches # <<>>
    /\ batch' = Head(batches)
    /\ inflight' = Range(Head(batches))
    /\ batches' = Tail(batches)
    /\ batch_num' = existing_batch_idx + batch_index + 1
    /\ batch_index' = batch_index + 1
    /\ results' = {}
    /\ runPc' = "collect"
    /\ UNCHANGED <<flat_video_list, batch_size, progressFile, processed_urls, persisted,
                   resultsDir, legacyDir, existing_batch_idx, failed, empty_batches_count,
                   batches_index, combined_results, aggregate, forceCalls, halted, loaded, crashes, dirAtInit>>
    /\ UNCHANGED <<poolVars, switchCalls>>

\* a worker's fetch got a quota error while futures are pending:
\* fetch_from_youtube_api calls _switch_to_next_key
WorkerRotation ==
    /\ runPc = "collect"
    /\ inflight # {}
    /\ ~are_all_keys_exhausted
    /\ \E ok \in BOOLEAN : switch_to_next_key(ok)
    /\ UNCHANGED <<flat_video_list, batch_size, progressFile, processed_urls, runPc, batches,
                   inflight, persisted, resultsDir, legacyDir, existing_batch_idx,
                   batch_index, batch_num, batch, results, failed, empty_batches_count,
                   batches_index, combined_results, aggregate, forceCalls, halted, loaded, crashes, dirAtInit>>

\* one pass of "for future in as_completed(...)": the future of item u is
\* collected; on success combined_results[video_id] = data,
\* processed_urls.add(video_url) and save_progress begins: open(path, 'w')
\* truncates the file
Collect(u, success) ==
    /\ runPc = "collect"
    /\ u \in inflight
    /\ inflight' = inflight \ {u}
    /\ processed_urls' = AddIfSuccess(processed_urls, u, success)
    /\ combined_results' = IF success THEN combined_results \cup {u} ELSE combined_results
    /\ results' = IF success THEN results \cup {u} ELSE results
    /\ failed' = IF success THEN failed ELSE failed \cup {u}
    /\ IF success
       THEN /\ progressFile' = PartialFile
            /\ runPc' = "saving"
       ELSE UNCHANGED <<progressFile, runPc>>
    /\ UNCHANGED <<flat_video_list, batch_size, batches, persisted, resultsDir, legacyDir,
                   existing_batch_idx, batch_index, batch_num, batch, empty_batches_count,
                   batches_index, aggregate, forceCalls, halted, loaded, crashes, dirAtInit>>
    /\ UNCHANGED <<poolVars, switchCalls>>

\* save_progress ends: json.dump has written the payload and the file is closed
SaveWritten ==
    /\ runPc = "saving"
    /\ \E payload \in {Payload(listing) : listing \in Listings(processed_urls)} :
          progressFile' = JsonFile(payload)
    /\ persisted' = persisted \cup processed_urls
    /\ runPc' = "collect"
    /\ UNCHANGED <<flat_video_list, batch_size, processed_urls, batches, inflight,
                   resultsDir, legacyDir, existing_batch_idx, batch_index, batch_num, batch,
                   results, failed, empty_batches_count, batches_index, combined_results,
                   aggregate, forceCalls, halted, loaded, crashes, dirAtInit>>
    /\ UNCHANGED <<poolVars, switchCalls>>

\* the artifact of the batch: the number is bumped until no file has it
ArtifactNumber == FreeNumber(batch_num, resultsDir)

WriteArtifact ==
    /\ resultsDir' = resultsDir \cup {BatchFileName(ArtifactNumber)}
    /\ batches_index' = Append(batches_index,
                               [batch |-> ArtifactNumber, size |-> Len(batch),
                                success |-> Cardinality(results)])

\* every future of the batch is collected: the stall check, then the artifact
EndBatch ==
    /\ runPc = "collect"
    /\ inflight = {}
    /\ LET success_count == Cardinality(results)
           count == IF success_count = 0 THEN empty_batches_count + 1 ELSE 0
       IN  IF success_count = 0 /\ StallReached(count)
           THEN IF are_all_keys_exhausted
                THEN \* break
                     /\ empty_batches_count' = count
                     /\ halted' = TRUE
                     /\ runPc' = AfterBreak
                     /\ UNCHANGED <<poolVars, switchCalls, forceCalls, resultsDir,
                                    batches_index>>
                ELSE \* force_switch_key()
                     \E ok \in BOOLEAN :
                        /\ switch_to_next_key(ok)
                        /\ forceCalls' = forceCalls + 1
                        /\ empty_batches_count' = IF ok THEN 0 ELSE count
                        /\ halted' = ~ok
                        /\ runPc' = IF ok THEN "dispatch" ELSE AfterBreak
                        /\ UNCHANGED <<resultsDir, batches_index>>
           ELSE /\ empty_batches_count' = count
                /\ IF WritesArtifact(success_count)
                   THEN WriteArtifact
                   ELSE UNCHANGED <<resultsDir, batches_index>>
                /\ runPc' = "dispatch"
                /\ UNCHANGED <<poolVars, switchCalls, forceCalls, halted>>
    /\ UNCHANGED <<flat_video_list, batch_size, progressFile, processed_urls, batches,
                   inflight, persisted, legacyDir, existing_batch_idx, batch_index,
                   batch_num, batch, results, failed, combined_results, aggregate, loaded,
                   crashes, dirAtInit>>

\* the loop is over (no batch is left, or break): the aggregate is written
\* and main() returns
Finalize ==
    /\ \/ runPc = "dispatch" /\ batches = <<>>
       \/ runPc = "finalize"
    /\ aggregate' = [state |-> "json", batches |-> batches_index,
                     videos |-> combined_results]
    /\ runPc' = "finished"
    /\ UNCHANGED <<flat_video_list, batch_size, progressFile, processed_urls, batches,
                   inflight, persisted, resultsDir, legacyDir, existing_batch_idx,
                   batch_index, batch_num, batch, results, failed, empty_batches_count,
                   batches_index, combined_results, forceCalls, halted, loaded, crashes, dirAtInit>>
    /\ UNCHANGED <<poolVars, switchCalls>>

\* the process is killed: what it held in memory is gone, the disk stays
Crash ==
    /\ runPc \in {"dispatch", "collect", "saving"}
    /\ crashes < MaxCrashes
    /\ crashes' = crashes + 1
    /\ dirAtInit' = {}
    /\ runPc' = "crashed"
    /\ processed_urls' = {}
    /\ batches' = <<>>
    /\ inflight' = {}
    /\ batch' = <<>>
    /\ results' = {}
    /\ failed' = {}
    /\ batch_index' = 0
    /\ batch_num' = 0
    /\ existing_batch_idx' = 0
    /\ empty_batches_count' = 0
    /\ batches_index' = <<>>
    /\ combined_results' = {}
    /\ forceCalls' = 0
    /\ halted' = FALSE
    /\ loaded' = {}
    /\ UNCHANGED <<flat_video_list, batch_size, progressFile, persisted, resultsDir,
                   legacyDir, aggregate>>
    /\ UNCHANGED <<poolVars, switchCalls>>

\* main() has not started: nothing is in memory
NotStarted ==
    /\ processed_urls = {}
    /\ runPc = "init"
    /\ batches = <<>>
    /\ inflight = {}
    /\ persisted = {}
    /\ existing_batch_idx = 0
    /\ batch_index = 0
    /\ batch_num = 0
    /\ batch = <<>>
    /\ results = {}
    /\ failed = {}
    /\ empty_batches_count = 0
    /\ batches_index = <<>>
    /\ combined_results = {}
    /\ aggregate = NoAggregate
    /\ forceCalls = 0
    /\ halted = FALSE
    /\ loaded = {}
    /\ crashes = 0
    /\ dirAtInit = {}

InitSched ==
    /\ flat_video_list \in Listings(Urls)
    /\ batch_size = BatchSize
    /\ progressFile = NoFile
    /\ resultsDir = {}
    /\ legacyDir = {}
    /\ NotStarted

\* the scheduler is not part of the specification
IdleSched ==
    /\ flat_video_list = <<>>
    /\ batch_size = BatchSize
    /\ progressFile = NoFile
    /\ resultsDir = {}
    /\ legacyDir = {}
    /\ NotStarted

(***************************************************************************)
(* The remote store and upload_metadata_batch of _huggingface_uploader.py. *)
(* The files of a call are numbered 1..n; a run is what one call did: the  *)
(* value it returned or the exception it raised, the commits the remote    *)
(* store accepted, and (when the log is kept) every request in order.      *)
(***************************************************************************)
\* what the remote store may answer to upload_folder: the commit is accepted,
\* or the exception is the file-count limit, the rate limit, or another one
FolderAnswers == {"ok", "file_count", "rate_limit", "other"}

\* a call that did nothing: "return 0, 0"
NoRun ==
    [raised |-> FALSE, uploaded |-> 0, total |-> 0, commits |-> 0, log |-> <<>>]

\* one request to the remote store: files lo..hi sent by upload_folder
\* ("folder"), by the upload_folder of the rate-limit retry ("retry") or by
\* upload_file ("file"), and the answer
Request(lo, hi, kind, answer) == [lo |-> lo, hi |-> hi, kind |-> kind, answer |-> answer]

Logged(keep, entries) == IF keep THEN entries ELSE <<>>

\* run a, then run b unless a raised: an exception leaves the function, the
\* counts of the returning calls add up
Then(a, b) ==
    IF a.raised THEN a
    ELSE [raised |-> b.raised,
          uploaded |-> IF b.raised THEN 0 ELSE a.uploaded + b.uploaded,
          total |-> 0,
          commits |-> a.commits + b.commits,
          log |-> a.log \o b.log]

\* "for ... in files_to_upload: if self.upload_metadata(...): uploaded_count
\* += 1": upload_metadata returns False when upload_file raises; accepted is
\* the set of files whose upload_file went through
upload_one_by_one(lo, hi, keep) ==
    {[raised |-> FALSE, uploaded |-> Cardinality(accepted), total |-> 0,
      commits |-> Cardinality(accepted),
      log |-> Logged(keep, [i \in 1..(hi - lo + 1) |->
                               Request(lo + i - 1, lo + i - 1, "file",
                                       IF lo + i - 1 \in accepted THEN "ok" ELSE "fail")])] :
        accepted \in SUBSET (lo..hi)}

\* "if len(files_to_upload) > 50"
Bisects_never(n) == FALSE

Bisects(n) == n > SPLIT_FLOOR

\* mid = len(files_to_upload) // 2
Mid(n) == n \div 2

\* the rate-limit branch: time.sleep(60), upload_folder once more; "raise" if
\* that fails too
retry_after_cooldown(lo, hi, keep) ==
    {[raised |-> FALSE, uploaded |-> hi - lo + 1, total |-> 0, commits |-> 1,
      log |-> Logged(keep, <<Request(lo, hi, "folder", "rate_limit"),
                             Request(lo, hi, "retry", "ok")>>)],
     [raised |-> TRUE, uploaded |-> 0, total |-> 0, commits |-> 0,
      log |-> Logged(keep, <<Request(lo, hi, "folder", "rate_limit"),
                             Request(lo, hi, "retry", "fail")>>)]}

\* the run r after the rejected upload_folder of lo..hi
After(lo, hi, answer, keep, r) ==
    [r EXCEPT !.log = Logged(keep, <<Request(lo, hi, "folder", answer)>>) \o @]

\* _upload_metadata_batch_single(files lo..hi): the runs it can make
RECURSIVE upload_metadata_batch_single(_, _, _)
upload_metadata_batch_single(lo, hi, keep) ==
    LET n == hi - lo + 1
        accepted == [raised |-> FALSE, uploaded |-> n, total |-> 0, commits |-> 1,
                     log |-> Logged(keep, <<Request(lo, hi, "folder", "ok")>>)]
        rejected(answer) ==
            CASE answer = "file_count" ->
                     IF Bisects(n)
                     THEN {After(lo, hi, answer, keep, Then(r1, r2)) :
                              r1 \in upload_metadata_batch_single(lo, lo + Mid(n) - 1, keep),
                              r2 \in upload_metadata_batch_single(lo + Mid(n), hi, keep)}
                     ELSE {After(lo, hi, answer, keep, r) :
                              r \in upload_one_by_one(lo, hi, keep)}
              [] answer = "rate_limit" -> retry_after_cooldown(lo, hi, keep)
              [] OTHER -> {After(lo, hi, answer, keep, r) :
                              r \in upload_one_by_one(lo, hi, keep)}
    IN  {accepted} \cup UNION {rejected(answer) : answer \in FolderAnswers \ {"ok"}}

\* "for i in range(0, len(files_to_upload), self.MAX_FILES_PER_COMMIT)": the
\* parts from file lo on, one after another
RECURSIVE upload_parts(_, _, _)
upload_parts(lo, n, keep) ==
    IF lo > n THEN {NoRun}
    ELSE LET hi == IF lo + MAX_FILES_PER_COMMIT - 1 < n
                   THEN lo + MAX_FILES_PER_COMMIT - 1 ELSE n
         IN  {Then(r1, r2) : r1 \in upload_metadata_batch_single(lo, hi, keep),
                             r2 \in upload_parts(hi + 1, n, keep)}

\* upload_metadata_batch(files_to_upload) for n files: "return total_uploaded,
\* total_count"
upload_metadata_batch(n, keep) ==
    IF n = 0 THEN {NoRun}
    ELSE {[r EXCEPT !.total = IF r.raised THEN 0 ELSE n] :
             r \in IF n > MAX_FILES_PER_COMMIT
                   THEN upload_parts(1, n, keep)
                   ELSE upload_metadata_batch_single(1, n, keep)}

\* uploader.update_repo_files_cache(len(files_to_upload)): the listing of the
\* remote store is refreshed, or the call raises
update_repo_files_cache == {"refreshed", "raised"}

(***************************************************************************)
(* The commit-batching uploader, main() of main_yt_api_hf.py.  Time is     *)
(* counted in ticks and the thresholds of the source are scaled down.      *)
(* The clock runs from Epoch to Horizon; from there on it is the recorded  *)
(* times that move back, and a time Old ticks back or more, which the loop *)
(* cannot tell from any older one, stays Old ticks back.                   *)
(***************************************************************************)
Horizon == Epoch + MaxTicks

Old == IF HOUR_TICKS > COMMIT_MAX_WAIT THEN HOUR_TICKS ELSE COMMIT_MAX_WAIT

\* how far the recorded times move back when d ticks pass
Shift(d) == IF clock + d > Horizon THEN clock + d - Horizon ELSE 0

\* time.time() after d more ticks
Later(d) == clock + d - Shift(d)

\* the recorded time t once d more ticks have passed
Aged(t, d) ==
    IF Shift(d) = 0 THEN t
    ELSE IF t - Shift(d) < Horizon - Old THEN Horizon - Old
    ELSE t - Shift(d)

AgedAll(ts, d) == [i \in DOMAIN ts |-> Aged(ts[i], d)]

StartsWith(s, prefix) == Len(s) >= Len(prefix) /\ SubSeq(s, 1, Len(prefix)) = prefix

EndsWith(s, suffix) ==
    Len(s) >= Len(suffix) /\ SubSeq(s, Len(s) - Len(suffix) + 1, Len(s)) = suffix

\* uploader.check_for_new_batches(success_batchs + pending_batches, dir): the
\* names it may return, in the order os.listdir gives them
check_for_new_batches(known, dir) ==
    Listings({batch_name \in dir :
                 /\ StartsWith(batch_name, <<"b", "a", "t", "c", "h", "_">>)
                 /\ EndsWith(batch_name, <<".", "j", "s", "o", "n">>)
                 /\ batch_name \notin Range(known)})

\* "if len(new_batchs) >= LOAD_BATCHES_TRESHOLD:
\* pending_batches.extend(new_batchs)"
Extended_always(pending, new_batchs) == pending \o new_batchs

Extended(pending, new_batchs) ==
    IF Len(new_batchs) >= LOAD_BATCHES_TRESHOLD THEN pending \o new_batchs ELSE pending

\* [t for t in recent_commit_ts if now - t < 3600]
PruneHour(ts, t_now) == SelectSeq(ts, LAMBDA t : t_now - t < HOUR_TICKS)

\* should_commit of main()
ShouldCommit_timerOnly(pending, t_now, last, left) ==
    (pending # <<>> /\ t_now - last >= COMMIT_MAX_WAIT) /\ left > 0

ShouldCommit(pending, t_now, last, left) ==
    (\/ Len(pending) >= COMMIT_MIN_BATCHES
     \/ (pending # <<>> /\ t_now - last >= COMMIT_MAX_WAIT))
        /\ left > 0

\* [b for b in pending_batches if b not in processed_batches]
Without_first(l, gone) == SelectSeq(l, LAMBDA b : b # Head(gone))

Without(l, gone) == SelectSeq(l, LAMBDA b : b \notin Range(gone))

\* len(batches_to_process[:COMMIT_MAX_BATCHES])
ChunkLen_all(l) == Len(l)

ChunkLen(l) == IF Len(l) < COMMIT_MAX_BATCHES THEN Len(l) ELSE COMMIT_MAX_BATCHES

\* the entries of "videos" in the artifact batch_k.json: the scheduler wrote
\* 1..BatchSize of them, here 1 + k mod BatchSize
videos_in(batch_name) ==
    LET k == CHOOSE j \in 1..(MaxArtifacts + 1) : BatchFileName(j) = batch_name
    IN  1 + (k % BatchSize)

\* "with open(...) as f: batch_data = json.load(f)" raises on a file whose
\* JSON text is not complete, and the batch is skipped
Readable(batch_name) == batch_name \notin writingFiles \cup truncatedFiles

\* len(files_to_upload) for a chunk: every video of every batch that could be
\* read, each video being of a category of cat2ids
RECURSIVE files_of(_)
files_of(chunk) ==
    IF chunk = <<>> THEN 0
    ELSE (IF Readable(Head(chunk)) THEN videos_in(Head(chunk)) ELSE 0) + files_of(Tail(chunk))

\* "except Exception as e: ... break"
AfterUploadError_continue == "chunk"

AfterUploadError == "update"

\* the end of an iteration: what the locals of the loop body hold is not read
\* again, the next iteration assigns them before it reads them
EndIteration ==
    /\ now' = 0
    /\ should_commit' = FALSE
    /\ commits_left' = 0
    /\ batches_to_process' = <<>>
    /\ processed_batches' = <<>>
    /\ current_batch_chunk' = <<>>
    /\ files_to_upload' = 0
    /\ upload' = NoRun

\* the top of the loop body: discovery, the commit journal, the decision;
\* without a commit the iteration ends with time.sleep(3)
Poll ==
    /\ upPc = "poll"
    /\ \E new_batchs \in check_for_new_batches(success_batchs \o pending_batches, resultsDir) :
          pending_batches' = Extended(pending_batches, new_batchs)
    /\ LET pruned == PruneHour(recent_commit_ts, clock)
           left == MAX_COMMITS_PER_HOUR - Len(pruned)
       IN  IF ShouldCommit(pending_batches', clock, last_commit_ts, left)
           THEN /\ now' = clock
                /\ recent_commit_ts' = pruned
                /\ commits_left' = left
                /\ should_commit' = TRUE
                /\ batches_to_process' = pending_batches'
                /\ processed_batches' = <<>>
                /\ upPc' = "chunk"
                /\ UNCHANGED <<clock, last_commit_ts, current_batch_chunk,
                               files_to_upload, upload>>
           ELSE /\ upPc' = "poll"
                /\ EndIteration
                /\ \E d \in 0..1 :
                      /\ clock' = Later(d)
                      /\ recent_commit_ts' = AgedAll(pruned, d)
                      /\ last_commit_ts' = Aged(last_commit_ts, d)
    /\ UNCHANGED <<success_batchs, progressUpload, keepLog, writingFiles, truncatedFiles,
                   matVars, COMMIT_MIN_BATCHES>>

\* "if files_to_upload:" and what follows it in the body of the while loop,
\* for a chunk that holds n files: the upload d ticks later, the journal, the
\* chunk marked as processed, or the break on an exception
Upload(chunk, n) ==
    IF n > 0
    THEN \E run \in upload_metadata_batch(n, keepLog),
            refresh \in update_repo_files_cache, d \in 0..1 :
            LET journal == Append(AgedAll(recent_commit_ts, d), Later(d))
            IN  /\ clock' = Later(d)
                /\ now' = Aged(now, d)
                /\ upload' = run
                /\ CASE run.raised ->
                           /\ upPc' = AfterUploadError
                           /\ last_commit_ts' = Aged(last_commit_ts, d)
                           /\ recent_commit_ts' = AgedAll(recent_commit_ts, d)
                           /\ UNCHANGED <<processed_batches, commits_left>>
                     [] ~run.raised /\ refresh = "raised" ->
                           /\ upPc' = AfterUploadError
                           /\ last_commit_ts' = Later(d)
                           /\ recent_commit_ts' = journal
                           /\ UNCHANGED <<processed_batches, commits_left>>
                     [] OTHER ->
                           /\ upPc' = "chunk"
                           /\ last_commit_ts' = Later(d)
                           /\ recent_commit_ts' = PruneHour(journal, Later(d))
                           /\ commits_left' = MAX_COMMITS_PER_HOUR - Len(recent_commit_ts')
                           /\ processed_batches' = processed_batches \o chunk
    ELSE /\ recent_commit_ts' = PruneHour(recent_commit_ts, clock)
         /\ commits_left' = MAX_COMMITS_PER_HOUR - Len(recent_commit_ts')
         /\ upPc' = "chunk"
         /\ UNCHANGED <<clock, now, upload, last_commit_ts, processed_batches>>

\* one pass of "while batches_to_process and commits_left > 0": the chunk is
\* cut, its files are read and, if there are any, uploaded
Chunk ==
    /\ upPc = "chunk"
    /\ IF batches_to_process # <<>> /\ commits_left > 0
       THEN LET n == ChunkLen(batches_to_process)
                chunk == SubSeq(batches_to_process, 1, n)
            IN  /\ current_batch_chunk' = chunk
                /\ batches_to_process' =
                       SubSeq(batches_to_process, n + 1, Len(batches_to_process))
                /\ files_to_upload' = files_of(chunk)
                /\ Upload(chunk, files_of(chunk))
       ELSE /\ upPc' = "update"
            /\ UNCHANGED <<clock, now, batches_to_process, last_commit_ts, processed_batches,
                           recent_commit_ts, commits_left, current_batch_chunk,
                           files_to_upload, upload>>
    /\ UNCHANGED <<success_batchs, pending_batches, should_commit, progressUpload, keepLog,
                   writingFiles, truncatedFiles, matVars, COMMIT_MIN_BATCHES>>

\* after the chunks: the committed names move to success_batchs, which is
\* saved; then time.sleep(3)
Update ==
    /\ upPc = "update"
    /\ IF processed_batches # <<>>
       THEN /\ success_batchs' = success_batchs \o processed_batches
            /\ progressUpload' = success_batchs \o processed_batches
            /\ pending_batches' = Without(pending_batches, processed_batches)
       ELSE UNCHANGED <<success_batchs, progressUpload, pending_batches>>
    /\ upPc' = "poll"
    /\ \E d \in 0..1 :
          /\ clock' = Later(d)
          /\ last_commit_ts' = Aged(last_commit_ts, d)
          /\ recent_commit_ts' = AgedAll(recent_commit_ts, d)
    /\ EndIteration
    /\ UNCHANGED <<keepLog, writingFiles, truncatedFiles, matVars, COMMIT_MIN_BATCHES>>

\* what the scheduler's steps below leave alone
SchedulerIdle ==
    UNCHANGED <<flat_video_list, progressFile, processed_urls, runPc, batches, inflight,
                persisted, batch_size, legacyDir, existing_batch_idx, batch_index,
                batch_num, batch, results, failed, empty_batches_count, batches_index,
                combined_results, aggregate, forceCalls, halted, loaded, dirAtInit,
                matVars, COMMIT_MIN_BATCHES>>

\* the scheduler opens one more artifact file for writing: the name is in the
\* directory, the JSON text is not yet complete
NewArtifact ==
    /\ writingFiles = {}
    /\ Cardinality(resultsDir) < MaxArtifacts
    /\ resultsDir' = resultsDir \cup {BatchFileName(FreeNumber(1, resultsDir))}
    /\ writingFiles' = {BatchFileName(FreeNumber(1, resultsDir))}
    /\ SchedulerIdle
    /\ UNCHANGED <<crashes, truncatedFiles>>

\* json.dump has written the whole payload and the file is closed
CloseArtifact ==
    /\ writingFiles # {}
    /\ writingFiles' = {}
    /\ SchedulerIdle
    /\ UNCHANGED <<resultsDir, crashes, truncatedFiles>>

\* the scheduler is killed inside json.dump: the file stays as it is, and a
\* later run numbers its artifacts past it
KillWriter ==
    /\ writingFiles # {}
    /\ crashes < MaxCrashes
    /\ crashes' = crashes + 1
    /\ truncatedFiles' = truncatedFiles \cup writingFiles
    /\ writingFiles' = {}
    /\ SchedulerIdle
    /\ UNCHANGED resultsDir

\* the records of the artifacts are not part of the specification
NothingRead ==
    /\ batch_data = <<>>
    /\ current_repo_files = {}
    /\ temp_dir = {}

\* "last_commit_ts = 0.0"
LastCommitAtStart_now == Epoch

LastCommitAtStart == 0

\* the uploader as it starts: success_batchs = load_progress_upload()
StartUp(min_batches) ==
    /\ COMMIT_MIN_BATCHES = min_batches
    /\ upPc = "poll"
    /\ clock = Epoch
    /\ now = 0
    /\ success_batchs = <<>>
    /\ progressUpload = <<>>
    /\ pending_batches = <<>>
    /\ last_commit_ts = LastCommitAtStart
    /\ recent_commit_ts = <<>>
    /\ should_commit = FALSE
    /\ commits_left = 0
    /\ batches_to_process = <<>>
    /\ processed_batches = <<>>
    /\ current_batch_chunk = <<>>
    /\ files_to_upload = 0
    /\ upload = NoRun
    /\ keepLog = FALSE
    /\ writingFiles = {}
    /\ truncatedFiles = {}
    /\ NothingRead

InitUp == StartUp(MinBatches)

(***************************************************************************)
(* main() of main_yt_dlp.py.  It runs its batches one item after another   *)
(* and stops for nothing, so a run is a function of what it starts with    *)
(* and of the items whose fetch gives data.                                *)
(***************************************************************************)
\* the batch_*.json names of results_dir
BatchFiles(dir) ==
    {f \in dir : /\ StartsWith(f, <<"b", "a", "t", "c", "h", "_">>)
                 /\ EndsWith(f, <<".", "j", "s", "o", "n">>)}

\* int(file.split("_")[1].split(".")[0]) for a name batch_<digits>.json
split_number(file) == int(SubSeq(file, 7, Len(file) - 5))

\* get_existing_batches_numbers(): max([...]) of the numbers of the batch
\* files, "m if m else 0"; max of an empty list raises ValueError
get_existing_batches_numbers(dir) ==
    IF BatchFiles(dir) = {} THEN [raised |-> TRUE, m |-> 0]
    ELSE [raised |-> FALSE, m |-> Max({split_number(f) : f \in BatchFiles(dir)})]

\* main(): what the run leaves.  work is the work list, checkpoint the set
\* load_progress returned, ok the items whose fetch returns data, dir the
\* names in results_dir
yt_dlp_main(work, checkpoint, ok, size, dir) ==
    LET todo == Filter(work, checkpoint)
        bs == batchify(todo, size)
        last == get_existing_batches_numbers(dir)
    IN  IF last.raised
        THEN [raised |-> TRUE, processed_urls |-> checkpoint, artifacts |-> <<>>]
        ELSE [raised |-> FALSE,
              processed_urls |-> checkpoint \cup Range(todo),
              artifacts |-> [i \in 1..Len(bs) |->
                                [batch |-> last.m + i, size |-> Len(bs[i]),
                                 success |-> Cardinality(Range(bs[i]) \cap ok)]]]

(***************************************************************************)
(* Spec: NWorkers threads fetch concurrently from a pool of NKeys          *)
(* credentials; between fetches the scheduler may force a rotation.        *)
(***************************************************************************)
FetchStep(t) ==
    \/ GetService(t)
    \/ Primary(t)
    \/ Channel(t)
    \/ ChannelService(t)
    \/ ChannelRetry(t)
    \/ Comments(t)
    \/ CommentsService(t)
    \/ CommentsRetry(t)

InitPool(n, items) ==
    /\ nKeys = n
    /\ current_key_index = 0
    /\ exhausted_keys = {}
    /\ quota_used_by_key = <<>>
    /\ quota_used = 0
    /\ thr = [t \in Threads |-> IdleThread]
    /\ itemsLeft = items
    /\ switchCalls = 0

Init ==
    /\ InitPool(NKeys, MaxCalls)
    /\ profile = [k \in 0..(NKeys - 1) |-> "any"]
    /\ IdleSched
    /\ InitUp

Next ==
    \/ \E t \in Threads : WorkerCall(t) /\ UNCHANGED <<schedVars, upVars>>
    \/ \E t \in Threads : FetchStep(t) /\ UNCHANGED <<schedVars, upVars>>
    \/ ForceSwitch /\ UNCHANGED <<schedVars, upVars>>

vars == <<fetchVars, schedVars, upVars>>

Spec == Init /\ [][Next]_vars

(***************************************************************************)
(* SpecSeq: one caller fetches NItems items one after another from a pool  *)
(* of 0..NKeys credentials, each of which always answers with a quota      *)
(* error, always succeeds, or answers anything.                            *)
(***************************************************************************)
Caller == 1

\* a direct caller: fetch_from_youtube_api(video_id, retries=r)
DirectCall(t) == \E r \in 0..MaxRetries : Call(t, r, TRUE)

\* the credentials of the scenario: the first is out of quota, the second works
ScenarioProfile == [k \in 0..1 |-> IF k = 0 THEN "quota" ELSE "ok"]

InitSeq ==
    /\ \/ \E n \in 0..NKeys :
             /\ InitPool(n, MaxCalls)
             /\ profile = [k \in 0..(n - 1) |-> "any"]
       \/ /\ InitPool(2, NItems)
          /\ profile = ScenarioProfile
    /\ IdleSched
    /\ InitUp

NextSeq ==
    \/ DirectCall(Caller) /\ UNCHANGED <<schedVars, upVars>>
    \/ FetchStep(Caller) /\ UNCHANGED <<schedVars, upVars>>

SpecSeq == InitSeq /\ [][NextSeq]_vars

(***************************************************************************)
(* SpecPar: a traced call of the Caller runs while a second worker fetches *)
(* from the same pool and the scheduler forces rotations.                  *)
(***************************************************************************)
Rival == 2

InitPar ==
    /\ \E n \in 1..NKeys :
          /\ InitPool(n, MaxCalls)
          /\ profile = [k \in 0..(n - 1) |-> "any"]
    /\ IdleSched
    /\ InitUp

NextPar ==
    \/ DirectCall(Caller) /\ UNCHANGED <<schedVars, upVars>>
    \/ FetchStep(Caller) /\ UNCHANGED <<schedVars, upVars>>
    \/ WorkerCall(Rival) /\ UNCHANGED <<schedVars, upVars>>
    \/ FetchStep(Rival) /\ UNCHANGED <<schedVars, upVars>>
    \/ ForceSwitch /\ UNCHANGED <<schedVars, upVars>>

SpecPar == InitPar /\ [][NextPar]_vars

(***************************************************************************)
(* SpecCkpt: runs of the scheduler over a work list of NUrls locators,     *)
(* killed at any point and started again.                                  *)
(***************************************************************************)
InitCkpt ==
    /\ InitPool(NKeys, 0)
    /\ profile = [k \in 0..(NKeys - 1) |-> "any"]
    /\ InitSched
    /\ InitUp

NextCkpt ==
    \/ StartRun /\ UNCHANGED <<callVars, upVars>>
    \/ Dispatch /\ UNCHANGED <<callVars, upVars>>
    \/ \E u \in Urls, success \in BOOLEAN : Collect(u, success) /\ UNCHANGED <<callVars, upVars>>
    \/ SaveWritten /\ UNCHANGED <<callVars, upVars>>
    \/ EndBatch /\ UNCHANGED <<callVars, upVars>>
    \/ Finalize /\ UNCHANGED <<callVars, upVars>>
    \/ Crash /\ UNCHANGED <<callVars, upVars>>

SpecCkpt == InitCkpt /\ [][NextCkpt]_vars

(***************************************************************************)
(* SpecSched: runs of the scheduler, one after another, that start with    *)
(* any checkpoint and with artifact files of earlier runs on disk; the     *)
(* workers' quota errors rotate the pool.                                  *)
(***************************************************************************)
\* the artifact directories an earlier run may have left
OldDirs ==
    {[results |-> {BatchFileName(n) : n \in S}, legacy |-> {}] : S \in SUBSET (1..MaxOldBatch)}
        \cup {[results |-> {}, legacy |-> {BatchFileName(MaxOldBatch)}]}

WorkUrls == 1..NWork

OldCheckpoints ==
    {NoFile} \cup {JsonFile(Payload(l)) : l \in UNION {Listings(S) : S \in SUBSET WorkUrls \ {{}}}}

InitRuns ==
    /\ InitPool(NKeys, 0)
    /\ profile = [k \in 0..(NKeys - 1) |-> "any"]
    /\ flat_video_list = [i \in 1..NWork |-> NWork + 1 - i]
    /\ batch_size \in {1, BatchSize}
    /\ progressFile \in OldCheckpoints
    /\ \E d \in OldDirs : resultsDir = d.results /\ legacyDir = d.legacy
    /\ NotStarted
    /\ InitUp

NextSched ==
    \/ StartRun /\ UNCHANGED <<callVars, upVars>>
    \/ Dispatch /\ UNCHANGED <<callVars, upVars>>
    \/ WorkerRotation /\ UNCHANGED <<callVars, upVars>>
    \/ \E u \in WorkUrls, success \in BOOLEAN : Collect(u, success) /\ UNCHANGED <<callVars, upVars>>
    \/ SaveWritten /\ UNCHANGED <<callVars, upVars>>
    \/ EndBatch /\ UNCHANGED <<callVars, upVars>>
    \/ Finalize /\ UNCHANGED <<callVars, upVars>>

SpecSched == InitRuns /\ [][NextSched]_vars

(***************************************************************************)
(* SpecUp: the uploader polls the artifact directory while artifact files  *)
(* appear in it.                                                           *)
(***************************************************************************)
InitUploader ==
    /\ InitPool(NKeys, 0)
    /\ profile = [k \in 0..(NKeys - 1) |-> "any"]
    /\ IdleSched
    /\ InitUp

NextUp ==
    \/ Poll /\ UNCHANGED <<fetchVars, schedVars>>
    \/ Chunk /\ UNCHANGED <<fetchVars, schedVars>>
    \/ Update /\ UNCHANGED <<fetchVars, schedVars>>
    \/ NewArtifact /\ UNCHANGED <<fetchVars, loopVars>>
    \/ CloseArtifact /\ UNCHANGED <<fetchVars, loopVars>>
    \/ KillWriter /\ UNCHANGED <<fetchVars, loopVars>>

SpecUp == InitUploader /\ [][NextUp]_vars

(***************************************************************************)
(* SpecUpFair: SpecUp when the loop keeps running, a write that is not     *)
(* killed is finished, time passes, and the remote store goes on accepting *)
(* a commit and a listing again and again.                                 *)
(***************************************************************************)
LoopStep(A) == A /\ UNCHANGED <<fetchVars, schedVars>>

\* an iteration ends later than it began
TimePasses ==
    /\ LoopStep(Poll) \/ LoopStep(Update)
    /\ <<clock, last_commit_ts, recent_commit_ts>>' # <<clock, last_commit_ts, recent_commit_ts>>

\* the upload of a chunk and the refresh of the listing both go through
Accepted == LoopStep(Chunk) /\ processed_batches' # processed_batches

SpecUpFair ==
    /\ SpecUp
    /\ WF_vars(LoopStep(Poll))
    /\ WF_vars(LoopStep(Chunk))
    /\ WF_vars(LoopStep(Update))
    /\ WF_vars(CloseArtifact /\ UNCHANGED <<fetchVars, loopVars>>)
    /\ SF_vars(TimePasses)
    /\ SF_vars(Accepted)

(***************************************************************************)
(* SpecStart: the uploader of SpecUp with COMMIT_MIN_BATCHES above         *)
(* LOAD_BATCHES_TRESHOLD, as it is in the source (50 and 5): a discovery   *)
(* can leave the queue below COMMIT_MIN_BATCHES.                           *)
(***************************************************************************)
InitStart ==
    /\ InitPool(NKeys, 0)
    /\ profile = [k \in 0..(NKeys - 1) |-> "any"]
    /\ IdleSched
    /\ StartUp(LOAD_BATCHES_TRESHOLD + 1)

SpecStart == InitStart /\ [][NextUp]_vars

(***************************************************************************)
(* SpecSplit: one pass of the chunk loop from "if files_to_upload:" on,    *)
(* for a chunk that holds 1..MaxFiles files, with the requests to the      *)
(* remote store recorded.                                                  *)
(***************************************************************************)
\* the queue of the pass: one full chunk and one more artifact
QueueOfPass == [i \in 1..(COMMIT_MAX_BATCHES + 1) |-> BatchFileName(i)]

InitSplit ==
    /\ InitPool(NKeys, 0)
    /\ profile = [k \in 0..(NKeys - 1) |-> "any"]
    /\ flat_video_list = <<>>
    /\ batch_size = BatchSize
    /\ progressFile = NoFile
    /\ resultsDir = Range(QueueOfPass)
    /\ legacyDir = {}
    /\ NotStarted
    /\ COMMIT_MIN_BATCHES = MinBatches
    /\ upPc = "upload"
    /\ clock = Epoch
    /\ now = Epoch
    /\ success_batchs = <<>>
    /\ progressUpload = <<>>
    /\ pending_batches = QueueOfPass
    /\ last_commit_ts = 0
    /\ recent_commit_ts = <<>>
    /\ should_commit = TRUE
    /\ commits_left = MAX_COMMITS_PER_HOUR
    /\ current_batch_chunk = SubSeq(QueueOfPass, 1, ChunkLen(QueueOfPass))
    /\ batches_to_process = SubSeq(QueueOfPass, ChunkLen(QueueOfPass) + 1, Len(QueueOfPass))
    /\ processed_batches = <<>>
    /\ files_to_upload \in 1..MaxFiles
    /\ upload = NoRun
    /\ keepLog = TRUE
    /\ writingFiles = {}
    /\ truncatedFiles = {}
    /\ NothingRead

\* the chunk that was cut is uploaded
UploadCall ==
    /\ upPc = "upload"
    /\ Upload(current_batch_chunk, files_to_upload)
    /\ UNCHANGED <<success_batchs, pending_batches, should_commit, progressUpload, keepLog,
                   batches_to_process, current_batch_chunk, files_to_upload,
                   writingFiles, truncatedFiles, matVars, COMMIT_MIN_BATCHES>>

NextSplit ==
    \/ UploadCall /\ UNCHANGED <<fetchVars, schedVars>>
    \/ Update /\ UNCHANGED <<fetchVars, schedVars>>

SpecSplit == InitSplit /\ [][NextSplit]_vars

(***************************************************************************)
(* SpecMat: the files of a chunk.  The chunk of two artifacts is cut, each *)
(* artifact holds some video ids, and the cached listing holds some of the *)
(* paths the videos are uploaded to.                                       *)
(***************************************************************************)
VideoIds == 1..MaxVideos

\* cat2ids = get_cat2ids(): video 1 is of no category, video 2 of both
cat2ids == [c \in {"auto", "music"} |->
               IF c = "auto" THEN {v \in VideoIds : v > 1} ELSE {2}]

\* hf_path = f"{cat}/{video_id}/{meta_folder_name}" and, in the folder that
\* is committed, hf_file_path = f"{hf_path}/{video_id}.json"
hf_file_path(cat, video_id) ==
    [category |-> cat, video_id |-> video_id, folder |-> "meta", file |-> video_id]

\* the paths get_current_repo_files can list: a known category, an id of
\* that category, a snapshot folder
RepoPaths == UNION {{hf_file_path(c, v) : v \in cat2ids[c]} : c \in DOMAIN cat2ids}

\* the records of batch_name: "for video_id ... in batch_data['videos']: for
\* cat, ids in cat2ids.items(): if video_id in ids: files_to_upload.append"
records_of(batch_name) ==
    UNION {{hf_file_path(c, v) : v \in batch_data[batch_name] \cap cat2ids[c]} :
              c \in DOMAIN cat2ids}

\* the records of a chunk, batch after batch; the records of one batch in
\* the order of its dict
RECURSIVE records_in(_)
records_in(chunk) ==
    IF chunk = <<>> THEN <<>>
    ELSE (CHOOSE l \in Listings(records_of(Head(chunk))) : TRUE) \o records_in(Tail(chunk))

\* "for batch_name in current_batch_chunk: ... files_to_upload.append(...)",
\* then in _upload_metadata_batch_single every file of files_to_upload is
\* written to temp_dir, the folder that upload_folder commits
Materialize ==
    /\ upPc = "materialize"
    /\ LET files == records_in(current_batch_chunk)
       IN  /\ files_to_upload' = Len(files)
           /\ temp_dir' = Range(files)
    /\ upPc' = "upload"
    /\ UNCHANGED <<clock, now, success_batchs, progressUpload, pending_batches,
                   last_commit_ts, recent_commit_ts, should_commit, commits_left,
                   batches_to_process, processed_batches, current_batch_chunk, upload,
                   keepLog, writingFiles, truncatedFiles, batch_data, current_repo_files,
                   COMMIT_MIN_BATCHES>>

InitMat ==
    /\ InitPool(NKeys, 0)
    /\ profile = [k \in 0..(NKeys - 1) |-> "any"]
    /\ flat_video_list = <<>>
    /\ batch_size = BatchSize
    /\ progressFile = NoFile
    /\ resultsDir = Range(QueueOfPass)
    /\ legacyDir = {}
    /\ NotStarted
    /\ COMMIT_MIN_BATCHES = MinBatches
    /\ upPc = "materialize"
    /\ clock = Epoch
    /\ now = Epoch
    /\ success_batchs = <<>>
    /\ progressUpload = <<>>
    /\ pending_batches = QueueOfPass
    /\ last_commit_ts = 0
    /\ recent_commit_ts = <<>>
    /\ should_commit = TRUE
    /\ commits_left = MAX_COMMITS_PER_HOUR
    /\ current_batch_chunk = SubSeq(QueueOfPass, 1, ChunkLen(QueueOfPass))
    /\ batches_to_process = SubSeq(QueueOfPass, ChunkLen(QueueOfPass) + 1, Len(QueueOfPass))
    /\ processed_batches = <<>>
    /\ files_to_upload = 0
    /\ upload = NoRun
    /\ keepLog = FALSE
    /\ writingFiles = {}
    /\ truncatedFiles = {}
    /\ batch_data \in [Range(current_batch_chunk) -> SUBSET VideoIds]
    /\ current_repo_files \in SUBSET RepoPaths
    /\ temp_dir = {}

NextMat == Materialize /\ UNCHANGED <<fetchVars, schedVars>>

SpecMat == InitMat /\ [][NextMat]_vars

(***************************************************************************)
(* SpecExec: one run of the scheduler with the ThreadPoolExecutor of each  *)
(* batch.  thr maps the items of the current batch to their tasks: a task  *)
(* is queued in the executor, runs worker(item) in one of its threads, or  *)
(* is done with its result in its future.                                  *)
(***************************************************************************)
Task == [pc |-> "queued", success |-> FALSE, collected |-> 0]

\* max_workers = min(len(batch), 4)
max_workers_uncapped(b) == Len(b)

max_workers(b) == IF Len(b) < WorkerCap THEN Len(b) ELSE WorkerCap

Running == {u \in DOMAIN thr : thr[u].pc = "running"}

\* "with ThreadPoolExecutor(max_workers=max_workers) as executor:
\* future_to_item = {executor.submit(worker, item): item for item in batch}"
Submit ==
    /\ Dispatch
    /\ thr' = [u \in Range(Head(batches)) |-> Task]
    /\ UNCHANGED <<profile, itemsLeft>>

\* a thread of the executor takes the task submitted first among those
\* queued; the executor has max_workers threads
TaskStart(u) ==
    /\ u \in DOMAIN thr
    /\ thr[u].pc = "queued"
    /\ \A i, j \in 1..Len(batch) :
          batch[j] = u /\ i < j => thr[batch[i]].pc # "queued"
    /\ Cardinality(Running) < max_workers(batch)
    /\ thr' = [thr EXCEPT ![u].pc = "running"]
    /\ UNCHANGED <<poolVars, switchCalls, profile, itemsLeft, schedVars>>

\* worker(item) returns: data is a record or {}
TaskReturn(u, success) ==
    /\ u \in DOMAIN thr
    /\ thr[u].pc = "running"
    /\ thr' = [thr EXCEPT ![u].pc = "done", ![u].success = success]
    /\ UNCHANGED <<poolVars, switchCalls, profile, itemsLeft, schedVars>>

\* "for future in as_completed(future_to_item)": a future that is done and
\* was not yielded yet is yielded, and future.result() is handled
Yield(u) ==
    /\ u \in DOMAIN thr
    /\ thr[u].pc = "done"
    /\ Collect(u, thr[u].success)
    /\ thr' = [thr EXCEPT ![u].collected = @ + 1]
    /\ UNCHANGED <<profile, itemsLeft>>

InitExec ==
    /\ nKeys = NKeys
    /\ current_key_index = 0
    /\ exhausted_keys = {}
    /\ quota_used_by_key = <<>>
    /\ quota_used = 0
    /\ thr = <<>>
    /\ itemsLeft = 0
    /\ switchCalls = 0
    /\ profile = [k \in 0..(NKeys - 1) |-> "any"]
    /\ flat_video_list = [i \in 1..NWork |-> NWork + 1 - i]
    /\ batch_size \in 1..(WorkerCap + 1)
    /\ progressFile = NoFile
    /\ resultsDir = {}
    /\ legacyDir = {}
    /\ NotStarted
    /\ InitUp

NextExec ==
    \/ /\ runPc = "init"
       /\ StartRun
       /\ UNCHANGED <<callVars, upVars>>
    \/ Submit /\ UNCHANGED upVars
    \/ \E u \in WorkUrls : TaskStart(u) /\ UNCHANGED upVars
    \/ \E u \in WorkUrls, success \in BOOLEAN : TaskReturn(u, success) /\ UNCHANGED upVars
    \/ \E u \in WorkUrls : Yield(u) /\ UNCHANGED upVars
    \/ SaveWritten /\ UNCHANGED <<callVars, upVars>>
    \/ EndBatch /\ UNCHANGED <<callVars, upVars>>
    \/ Finalize /\ UNCHANGED <<callVars, upVars>>

SpecExec == InitExec /\ [][NextExec]_vars

(***************************************************************************)
(* SpecLock: the rotation lock.  Here a step is one statement of a thread  *)
(* around "with _key_rotation_lock:": the thread waits for the lock, is    *)
(* inside the with block, or is outside of it building a transport,        *)
(* executing a request or sleeping.  A call is a fetch (its primary        *)
(* request) or a status read of the scheduler.                             *)
(***************************************************************************)
LockThread == [pc |-> "idle", holds |-> FALSE, svc |-> -1, retries |-> 0]

\* the with statements a thread can be waiting at, and the block it enters
WaitPcs == {"service_wait", "switch_wait", "consume_wait", "status_wait"}

Entered(pc) ==
    CASE pc = "service_wait" -> "service_in"
      [] pc = "switch_wait" -> "switch_in"
      [] pc = "consume_wait" -> "consume_in"
      [] OTHER -> "status_in"

\* fetch_from_youtube_api(video_id) or are_all_keys_exhausted() /
\* get_current_key_info() is called
LockCall(t) ==
    /\ thr[t].pc \in {"idle", "done"}
    /\ itemsLeft > 0
    /\ itemsLeft' = itemsLeft - 1
    /\ \E op \in {"service_wait", "status_wait"} :
          Set(t, [LockThread EXCEPT !.pc = op,
                                    !.retries = IF op = "service_wait" THEN DefaultRetries
                                                ELSE 0])
    /\ NoPool
    /\ UNCHANGED profile

\* "with _key_rotation_lock:" is entered: threading.Lock.acquire
Acquire(t) ==
    /\ thr[t].pc \in WaitPcs
    /\ \A u \in Threads : ~thr[u].holds
    /\ Set(t, [thr[t] EXCEPT !.pc = Entered(@), !.holds = TRUE])
    /\ NoPool
    /\ UNCHANGED <<profile, itemsLeft>>

\* the call has returned: its locals are gone
Left == [LockThread EXCEPT !.pc = "done"]

\* "time.sleep(backoff_sec); return fetch_from_youtube_api(...)" or
\* "return {}" of the handlers of the outer try
Backoff(r) ==
    IF r.retries > 0 THEN [r EXCEPT !.pc = "sleep", !.holds = FALSE, !.svc = -1]
    ELSE Left

\* get_youtube_service leaves its with block with current_key: the block
\* ends before "return build(...)"
AfterKeyRead_insideWith(r, key) == [r EXCEPT !.pc = "build", !.svc = key]

AfterKeyRead(r, key) == [r EXCEPT !.pc = "build", !.svc = key, !.holds = FALSE]

\* the with block of get_youtube_service
InGetService(t) ==
    /\ thr[t].pc = "service_in"
    /\ LET s == get_youtube_service
       IN  Set(t, IF s.raised THEN Backoff(thr[t]) ELSE AfterKeyRead(thr[t], s.key))
    /\ NoPool
    /\ UNCHANGED <<profile, itemsLeft>>

\* build('youtube', 'v3', developerKey=current_key); the function returns
Build(t) ==
    /\ thr[t].pc = "build"
    /\ Set(t, [thr[t] EXCEPT !.pc = "execute", !.holds = FALSE])
    /\ NoPool
    /\ UNCHANGED <<profile, itemsLeft>>

\* service.videos().list(...).execute() and the handler its exception reaches
Execute(t) ==
    /\ thr[t].pc = "execute"
    /\ \E o \in Outcomes(thr[t].svc) :
          Set(t, CASE o = OK -> [thr[t] EXCEPT !.pc = "consume_wait", !.svc = -1]
                   [] OuterClause(o) = "rotate" ->
                          [thr[t] EXCEPT !.pc = "switch_wait", !.svc = -1]
                   [] OTHER -> Backoff(thr[t]))
    /\ NoPool
    /\ UNCHANGED <<profile, itemsLeft>>

\* the with block of _consume_quota(1, "videos.list"); the fetch goes on to
\* return its result
InConsume(t) ==
    /\ thr[t].pc = "consume_in"
    /\ consume_quota(1)
    /\ Set(t, Left)
    /\ UNCHANGED <<profile, itemsLeft>>

\* the with block of _switch_to_next_key; "if _switch_to_next_key(): return
\* fetch_from_youtube_api(...)", else "return {}"
InSwitch(t) ==
    /\ thr[t].pc = "switch_in"
    /\ \E ok \in BOOLEAN :
          /\ switch_to_next_key(ok)
          /\ Set(t, IF ok THEN [thr[t] EXCEPT !.pc = "service_wait", !.holds = FALSE]
                    ELSE Left)
    /\ UNCHANGED <<profile, itemsLeft>>

\* the with block of are_all_keys_exhausted / get_current_key_info
InStatus(t) ==
    /\ thr[t].pc = "status_in"
    /\ Set(t, Left)
    /\ NoPool
    /\ UNCHANGED <<profile, itemsLeft>>

\* time.sleep(backoff_sec) is over: the recursive call
Wake(t) ==
    /\ thr[t].pc = "sleep"
    /\ Set(t, [thr[t] EXCEPT !.pc = "service_wait", !.retries = @ - 1])
    /\ NoPool
    /\ UNCHANGED <<profile, itemsLeft>>

\* the next statement of thread t inside a call
LockStep(t) ==
    \/ Acquire(t)
    \/ InGetService(t)
    \/ Build(t)
    \/ Execute(t)
    \/ InConsume(t)
    \/ InSwitch(t)
    \/ InStatus(t)
    \/ Wake(t)

InitLock ==
    /\ nKeys = NKeys
    /\ current_key_index = 0
    /\ exhausted_keys = {}
    /\ quota_used_by_key = <<>>
    /\ quota_used = 0
    /\ thr = [t \in Threads |-> LockThread]
    /\ itemsLeft = MaxCalls
    /\ switchCalls = 0
    /\ profile = [k \in 0..(NKeys - 1) |-> "any"]
    /\ IdleSched
    /\ InitUp

NextLock ==
    \/ \E t \in Threads : LockCall(t) /\ UNCHANGED <<schedVars, upVars>>
    \/ \E t \in Threads : LockStep(t) /\ UNCHANGED <<schedVars, upVars>>

\* every thread that can take its next step takes it: the interpreter
\* schedules every runnable thread
SpecLock ==
    /\ InitLock
    /\ [][NextLock]_vars
    /\ \A t \in Threads : WF_vars(LockStep(t) /\ UNCHANGED <<schedVars, upVars>>)

(***************************************************************************)
(* Claims about the credential pool and the fetch client.                  *)
(***************************************************************************)
\* the threads that are inside a traced call, or have returned from one
Traced == {t \in Threads : thr[t].traced}
Active == {t \in Threads : thr[t].pc \notin {"idle", "done"}}
Returned == {t \in Threads : thr[t].pc = "done"}

\* C1: in every reachable state the active index is not in the exhausted
\* set, or are_all_keys_exhausted() is true.
C1_ActiveNotExhausted ==
    current_key_index \notin exhausted_keys \/ are_all_keys_exhausted

\* a rotation has left live credentials behind it while a worker is inside a
\* fetch and usage has been recorded
C1_Witness ==
    /\ exhausted_keys # {}
    /\ ~are_all_keys_exhausted
    /\ quota_used > 0
    /\ Active # {}

\* C2: a quota failure of a request issued under credential k adds no index
\* other than k to the exhausted set, so two failures under the same k
\* advance the pool once.
C2_SingleAdvance ==
    [][\A t \in Threads :
          (thr[t].pc = "primary" /\ thr'[t] # thr[t])
              => (exhausted_keys' \ exhausted_keys) \subseteq {thr[t].svc}]_vars

\* C3: after n calls of _switch_to_next_key on a pool of n >= 1 credentials
\* are_all_keys_exhausted() is true and get_youtube_service() raises.
C3_ExhaustedPoolRefuses ==
    (nKeys >= 1 /\ switchCalls >= nKeys)
        => (are_all_keys_exhausted /\ get_youtube_service.raised)

\* C4: a fetch entered once the pool is fully exhausted issues no request to
\* the upstream source, and what it returns is the empty result.
C4_FailFast ==
    [][\A t \in Threads :
          (are_all_keys_exhausted /\ thr[t].pc = "enter" /\ thr'[t] # thr[t])
              => /\ thr'[t].pc # "primary"
                 /\ thr'[t].pc = "done" => thr'[t].result = "empty"]_vars

\* C5: only transient failures consume the retry budget, every failed
\* attempt that did not end the call is followed by one re-issue, and a
\* request is made under the credential that is active; with the scenario's
\* pool (credential 0 out of quota, credential 1 working) the items fetched
\* one after another leave index 1 active and {0} exhausted after one
\* rotation.
C5_RotationKeepsBudget ==
    /\ \A t \in Traced \cap Active :
          /\ thr[t].retries = thr[t].retries0 - thr[t].nTransient
          /\ thr[t].pc = "enter" => thr[t].attempts = thr[t].nTransient + thr[t].nQuota
          /\ thr[t].pc # "enter" => thr[t].attempts = thr[t].nTransient + thr[t].nQuota + 1
          /\ thr[t].pc = "primary" => thr[t].svc = current_key_index
    /\ (profile = ScenarioProfile /\ thr[Caller].pc = "done")
          => /\ current_key_index = 1
             /\ exhausted_keys = {0}
             /\ switchCalls = 1

\* the five items of the scenario have been fetched
C5_Witness ==
    /\ profile = ScenarioProfile
    /\ itemsLeft = 0
    /\ NItems >= 5
    /\ thr[Caller].pc = "done"
    /\ thr[Caller].result = "populated"
    /\ current_key_index = 1

\* the wait before attempt i + 1: 0.5 s doubled i - 1 times, at most 2.0 s
ExpectedWait(i) ==
    IF BackoffStartMs * (2 ^ (i - 1)) < BackoffCapMs
    THEN BackoffStartMs * (2 ^ (i - 1))
    ELSE BackoffCapMs

\* C6: a fetch whose every attempt failed with a transient error has made
\* retries + 1 attempts, has waited 0.5 s, 1.0 s, ... (doubling, at most
\* 2.0 s) between them and returns the empty result; with the default
\* retries = 2 that is 3 attempts and waits of 0.5 s and 1.0 s.
C6_TransientRetries ==
    \A t \in Traced \cap Returned :
       (thr[t].nQuota = 0 /\ thr[t].nTransient = thr[t].attempts)
           => /\ thr[t].attempts = thr[t].retries0 + 1
              /\ thr[t].sleeps = [i \in 1..thr[t].retries0 |-> ExpectedWait(i)]
              /\ thr[t].result = "empty"
              /\ thr[t].retries0 = DefaultRetries
                    => thr[t].attempts = 3 /\ thr[t].sleeps = <<500, 1000>>

\* a call with the default retries whose three attempts all failed
\* transiently, on a pool that has credentials
C6_Witness ==
    \E t \in Traced \cap Returned :
       /\ nKeys > 0
       /\ thr[t].retries0 = DefaultRetries
       /\ thr[t].nQuota = 0
       /\ thr[t].nTransient = 3
       /\ thr[t].attempts = 3

\* C7: fetch_from_youtube_api never raises: a call that has returned has
\* returned a populated record or the empty result.
C7_NeverRaises ==
    \A t \in Threads :
       /\ thr[t].result # "raised"
       /\ thr[t].pc = "done" => thr[t].result \in {"populated", "empty"}

\* a call on an empty pool has returned (the empty result)
C7_Witness ==
    /\ nKeys = 0
    /\ thr[Caller].pc = "done"
    /\ thr[Caller].result = "empty"
    /\ thr[Caller].attempts = thr[Caller].retries0 + 1

\* C8: a fetch whose primary request returned an item returns a populated
\* record, whatever the optional sub-requests did.
C8_OptionalSubRequests ==
    \A t \in Traced \cap Returned :
       thr[t].gotItem => thr[t].result = "populated"

\* the first call returned a populated record although a sub-request of it
\* failed with a quota error (the only rotation so far is not the primary's)
C8_Witness ==
    \E t \in Traced \cap Returned :
       /\ profile # ScenarioProfile
       /\ itemsLeft = MaxCalls - 1
       /\ thr[t].gotItem
       /\ thr[t].result = "populated"
       /\ thr[t].nQuota = 0
       /\ switchCalls >= 1

\* C28: while the pool is not fully exhausted the exhausted set is the prefix
\* 0..k-1 of the pool and the active index is k, the smallest index that is
\* not exhausted; a rotation never selects an index above a live one.
C28_ExhaustedIsPrefix ==
    ~are_all_keys_exhausted
        => /\ exhausted_keys = 0..(current_key_index - 1)
           /\ current_key_index = Min(ScanRange \ exhausted_keys)

\* two rotations have gone by and the third credential is in use by a worker
C28_Witness ==
    /\ exhausted_keys = {0, 1}
    /\ current_key_index = 2
    /\ \E t \in Threads : thr[t].pc = "primary" /\ thr[t].svc = 2

\* C29: in a process run the exhausted set only grows, a rotation never makes
\* an exhausted index active again, and the total and the per-credential
\* usage counters never decrease.
C29_Monotonic ==
    [][/\ exhausted_keys \subseteq exhausted_keys'
       /\ current_key_index' # current_key_index
             => current_key_index' \notin exhausted_keys \cup exhausted_keys'
       /\ quota_used' >= quota_used
       /\ DOMAIN quota_used_by_key \subseteq DOMAIN quota_used_by_key'
       /\ \A k \in DOMAIN quota_used_by_key :
             quota_used_by_key'[k] >= quota_used_by_key[k]]_vars

\* usage has been recorded under two credentials, the first of them exhausted
C29_Witness ==
    /\ 0 \in exhausted_keys
    /\ {0, 1} \subseteq DOMAIN quota_used_by_key
    /\ quota_used >= 2

\* C30: a call of fetch_from_youtube_api ends after at most
\* (poolSize - 1) + retries + 1 primary requests, whatever the upstream
\* source answers and whatever the other worker and the scheduler do to the
\* pool: every re-issue follows a successful rotation, of which the call sees
\* at most poolSize - 1, or uses up one of its retries.
C30_BoundedRequests ==
    \A t \in Traced :
       /\ thr[t].nPrimary <= (nKeys - 1) + thr[t].retries0 + 1
       /\ thr[t].attempts <= nKeys + thr[t].retries0 + 1
       /\ thr[t].pc # "done" => thr[t].nQuota <= nKeys - 1
       /\ thr[t].nTransient <= thr[t].retries0 + 1
       /\ thr[t].pc # "done" => thr[t].nTransient <= thr[t].retries0

\* a call has returned after both a rotation and a transient retry while the
\* other worker was fetching
C30_Witness ==
    /\ thr[Caller].pc = "done"
    /\ thr[Caller].traced
    /\ thr[Caller].nPrimary >= 3
    /\ thr[Caller].nQuota >= 1
    /\ thr[Caller].nTransient >= 1
    /\ thr[Rival].pc \notin {"idle", "done"}

(***************************************************************************)
(* Claims about the checkpoint.                                            *)
(***************************************************************************)
\* C9: between two saves the checkpoint file reloads to exactly the set that
\* was saved, whatever the order its locators were added or listed in, and
\* saving the reloaded set again gives the same file content.
C9_CheckpointRoundTrip ==
    runPc \in {"dispatch", "collect", "finished"}
        => /\ load_progress(progressFile) = processed_urls
           /\ progressFile.state = "json"
                 => \A listing \in Listings(load_progress(progressFile)) :
                       JsonFile(Payload(listing)) = progressFile

\* a checkpoint of all the locators has been saved by a run that collected
\* at least two of them itself
C9_Witness ==
    /\ runPc = "collect"
    /\ progressFile.state = "json"
    /\ progressFile.count = NUrls
    /\ processed_urls = Urls
    /\ NUrls >= 2

\* C10: a run works on a checkpoint that holds every locator an earlier
\* completed checkpoint write had persisted, whatever crashes came between.
C10_CrashKeepsProgress ==
    runPc \in {"dispatch", "collect", "saving"} => persisted \subseteq processed_urls

(***************************************************************************)
(* Claims about the batch scheduler.                                       *)
(***************************************************************************)
\* the items of the batches not yet dispatched
Undispatched == UNION {Range(batches[i]) : i \in 1..Len(batches)}

RECURSIVE Flatten(_)
Flatten(ss) == IF ss = <<>> THEN <<>> ELSE Head(ss) \o Flatten(Tail(ss))

CeilDiv(a, b) == (a + b - 1) \div b

\* the batch numbers of the artifact files among the names of dir
MaxBatchNum == MaxOldBatch + (2 * NWork) + (2 * NUrls) + 2

NumbersIn(dir) == {n \in 0..MaxBatchNum : BatchFileName(n) \in dir}

\* C11: no batch of a run holds a locator of the checkpoint the run loaded:
\* neither the batches still to dispatch, nor the batch dispatched, nor the
\* tasks in flight.
C11_SkipsCheckpointed ==
    runPc \in {"dispatch", "collect", "saving", "finalize"}
        => /\ Undispatched \cap loaded = {}
           /\ Range(batch) \cap loaded = {}
           /\ inflight \cap loaded = {}
           /\ (combined_results \cup failed) \cap loaded = {}

\* a run that loaded a checkpoint has a batch in flight and more to dispatch
C11_Witness ==
    /\ runPc = "collect"
    /\ loaded # {}
    /\ inflight # {}
    /\ batches # <<>>
    /\ loaded \subseteq Range(flat_video_list)

\* C12: between two collected results the checkpoint, in memory and on disk,
\* is what the run loaded plus the locators whose fetch succeeded; no failed
\* locator is in it, and the work-list items it lacks are in flight, failed
\* or not yet dispatched.
C12_CheckpointFollowsSuccess ==
    runPc \in {"dispatch", "collect", "finalize"}
        => /\ processed_urls = loaded \cup combined_results
           /\ load_progress(progressFile) = processed_urls
           /\ failed \cap processed_urls = {}
           /\ (Range(flat_video_list) \ load_progress(progressFile))
                  \subseteq (inflight \cup failed \cup Undispatched)

\* in one batch a fetch has failed, another has succeeded and been saved, and
\* a third task is still in flight
C12_Witness ==
    /\ runPc = "collect"
    /\ failed # {}
    /\ results # {}
    /\ inflight # {}
    /\ progressFile.state = "json"
    /\ results \subseteq load_progress(progressFile)

\* C13 as stated: a run that does not halt dispatches ceil(N/B) batches less
\* the batches of the unfiltered work list that the checkpoint covers whole.
C13_BatchCountStated ==
    (runPc = "finished" /\ ~halted)
        => batch_index =
              CeilDiv(Len(flat_video_list), batch_size)
                - Cardinality({i \in 1..Len(batchify(flat_video_list, batch_size)) :
                                 Range(batchify(flat_video_list, batch_size)[i]) \subseteq loaded})

\* C13 amended: a run that does not halt dispatches ceil((N - c)/B) batches,
\* c being the number of work-list items in the checkpoint it loaded.
C13_BatchCount ==
    (runPc = "finished" /\ ~halted)
        => batch_index =
              CeilDiv(Len(flat_video_list) - Cardinality(Range(flat_video_list) \cap loaded),
                      batch_size)

\* a run over a checkpoint that covers no original batch whole, but enough
\* items to save a batch, has finished
C13_Witness ==
    /\ runPc = "finished"
    /\ ~halted
    /\ batch_size = 2
    /\ Cardinality(loaded) = 2
    /\ batch_index = 1
    /\ \A i \in 1..Len(batchify(flat_video_list, batch_size)) :
          ~(Range(batchify(flat_video_list, batch_size)[i]) \subseteq loaded)

\* C14: when the run has built its batches they are, joined in order, the
\* work list without the checkpointed items; every batch but the last has
\* batch_size items and the last has 1..batch_size; 20 items in batches of
\* 16 give two batches of 16 and 4.
C14_BatchesAreSlices ==
    /\ (runPc = "dispatch" /\ batch_index = 0)
          => /\ Flatten(batches) = SelectSeq(flat_video_list, LAMBDA u : u \notin loaded)
             /\ \A i \in 1..(Len(batches) - 1) : Len(batches[i]) = batch_size
             /\ batches # <<>> => Len(batches[Len(batches)]) \in 1..batch_size
    /\ LET twenty == batchify([i \in 1..20 |-> i], 16)
       IN  /\ Len(twenty) = 2
           /\ Len(twenty[1]) = 16
           /\ Len(twenty[2]) = 4
           /\ twenty[1] \o twenty[2] = [i \in 1..20 |-> i]

\* a run over a checkpoint has built a full batch and a shorter last batch
C14_Witness ==
    /\ runPc = "dispatch"
    /\ batch_index = 0
    /\ loaded # {}
    /\ Len(batches) = 2
    /\ Len(batches[2]) < batch_size

\* C15: the i-th batch dispatched has batch number N + i, N being the highest
\* batch number of the artifact files in the results directories when the
\* run began (0 without any).
C15_BatchNumbers ==
    runPc \in {"collect", "saving"}
        => batch_num = Max({0} \cup NumbersIn(dirAtInit)) + batch_index

\* C16: the artifacts a run has written have strictly increasing numbers,
\* none is the number of a file that was there when the run began, and each
\* is greater than every number that was there.
C16_NumbersNeverRepeat ==
    runPc \in {"dispatch", "collect", "saving", "finalize", "finished"}
        => /\ \A i, j \in 1..Len(batches_index) :
                 i < j => batches_index[i].batch < batches_index[j].batch
           /\ \A i \in 1..Len(batches_index) :
                 /\ BatchFileName(batches_index[i].batch) \notin dirAtInit
                 /\ BatchFileName(batches_index[i].batch) \in resultsDir
                 /\ \A n \in NumbersIn(dirAtInit) : batches_index[i].batch > n

\* C17: the artifact directory changes only at the end of a batch, then by
\* one new file, and it does so exactly when the batch has a success.
C17_ArtifactIffSuccess ==
    [][/\ (resultsDir' # resultsDir)
             <=> (runPc = "collect" /\ runPc' \notin {"collect", "saving"}
                    /\ Cardinality(results) >= 1)
       /\ resultsDir \subseteq resultsDir'
       /\ Cardinality(resultsDir' \ resultsDir) <= 1]_vars

\* two batches are over: one without a success and without an artifact, one
\* with an artifact
C17_Witness ==
    /\ runPc = "dispatch"
    /\ batch_index = 2
    /\ Len(batches_index) = 1
    /\ empty_batches_count = 1
    /\ Cardinality(resultsDir \ dirAtInit) = 1

\* the step that ends a batch
EndsBatch == runPc = "collect" /\ runPc' \notin {"collect", "saving"}

\* the batch that ends is the third in a row without a success
ThirdEmpty == results = {} /\ empty_batches_count + 1 >= MAX_EMPTY_BATCHES

\* C18 as stated: after a third batch in a row without a success exactly one
\* forced rotation is attempted; when it succeeds the counter is 0 and the
\* run goes on, when it fails the run halts.
C18_StallStated ==
    [][(EndsBatch /\ ThirdEmpty)
          => /\ forceCalls' = forceCalls + 1
             /\ \/ runPc' = "dispatch" /\ empty_batches_count' = 0 /\ ~halted'
                \/ runPc' = "finalize" /\ halted']_vars

\* C18 amended: after a third batch in a row without a success the run halts
\* without a rotation attempt when the pool is fully exhausted, and otherwise
\* attempts exactly one forced rotation: when it succeeds the counter is 0
\* and the run goes on, when it fails the run halts.  Any other batch
\* attempts none, and sets the counter to 0 when it has a success; the
\* counter is below 3 whenever a batch starts.
C18_Stall ==
    /\ [](runPc \in {"dispatch", "collect", "saving"} => empty_batches_count < MAX_EMPTY_BATCHES)
    /\ [][EndsBatch
            => IF ThirdEmpty
               THEN IF are_all_keys_exhausted
                    THEN forceCalls' = forceCalls /\ halted' /\ runPc' = "finalize"
                    ELSE /\ forceCalls' = forceCalls + 1
                         /\ exhausted_keys' = exhausted_keys \cup {current_key_index}
                         /\ IF Cardinality(exhausted_keys') < nKeys
                            THEN runPc' = "dispatch" /\ empty_batches_count' = 0 /\ ~halted'
                            ELSE runPc' = "finalize" /\ halted'
               ELSE /\ forceCalls' = forceCalls
                    /\ ~halted'
                    /\ runPc' = "dispatch"
                    /\ empty_batches_count' = IF results = {} THEN empty_batches_count + 1
                                              ELSE 0]_vars

\* after three batches without a success a forced rotation succeeded and the
\* fourth batch is dispatched
C18_Witness ==
    /\ runPc = "collect"
    /\ batch_index = 4
    /\ forceCalls = 1
    /\ empty_batches_count = 0
    /\ combined_results = {}

\* C19: once the loop is left by break no batch is dispatched; the run is at
\* the write of the aggregate, which it can make, or has made it: the file
\* holds the index and the combined results.  The checkpoint file holds the
\* locators that succeeded.
C19_HaltStillFinalizes ==
    halted
        => /\ runPc \in {"finalize", "finished"}
           /\ inflight = {}
           /\ combined_results \subseteq load_progress(progressFile)
           /\ runPc = "finalize" => ENABLED (Finalize /\ UNCHANGED <<callVars, upVars>>)
           /\ runPc = "finished"
                 => aggregate = [state |-> "json", batches |-> batches_index,
                                 videos |-> combined_results]

\* a run halted with a batch left and has written its aggregate
C19_Witness ==
    /\ halted
    /\ runPc = "finished"
    /\ batches # <<>>
    /\ aggregate.state = "json"
    /\ aggregate.batches = batches_index

(***************************************************************************)
(* Claims about the uploader.                                              *)
(***************************************************************************)
\* commits of the journal made less than an hour before time t
CommitsInHour(t) ==
    Cardinality({i \in DOMAIN recent_commit_ts : t - recent_commit_ts[i] < HOUR_TICKS})

\* C20: an iteration goes on to commit exactly when commits remain in this
\* hour and the queue, after discovery, holds COMMIT_MIN_BATCHES names or
\* holds a name while COMMIT_MAX_WAIT has passed since the last commit; it
\* then commits the whole queue, in this iteration.
C20_CommitDecision ==
    [][(upPc = "poll" /\ loopVars' # loopVars)
          => LET remaining == MAX_COMMITS_PER_HOUR - CommitsInHour(clock)
                 due == /\ remaining > 0
                        /\ \/ Len(pending_batches') >= COMMIT_MIN_BATCHES
                           \/ /\ Len(pending_batches') > 0
                              /\ clock - last_commit_ts >= COMMIT_MAX_WAIT
             IN  /\ (upPc' = "chunk") <=> due
                 /\ upPc' = "chunk"
                       => /\ batches_to_process' = pending_batches'
                          /\ commits_left' > 0
                          /\ clock' = clock]_vars

\* after an earlier commit, a queue that has reached COMMIT_MIN_BATCHES is
\* being committed before COMMIT_MAX_WAIT has passed
C20_Witness ==
    /\ upPc = "chunk"
    /\ batches_to_process = pending_batches
    /\ processed_batches = <<>>
    /\ Len(pending_batches) >= COMMIT_MIN_BATCHES
    /\ success_batchs # <<>>
    /\ now - last_commit_ts < COMMIT_MAX_WAIT
    /\ commits_left > 0

(***************************************************************************)
(* The upload of a chunk: ceiling, chunks, splitting, marking              *)
(***************************************************************************)

\* C21: the commits the uploader makes against the remote store within one
\* hour, sub-commits, retries and per-record uploads counted, number at most
\* MAX_COMMITS_PER_HOUR; the commits of one upload call all fall within one
\* hour.
C21_HourlyCeiling == upload.commits <= MAX_COMMITS_PER_HOUR

\* C22: during a pass the chunk handed to the upload call holds at most
\* COMMIT_MAX_BATCHES names, it is the slice of the queue that ends where the
\* names still to process begin, each pass of the loop cuts the next chunk
\* from the head of those names, and the queue names no artifact twice.
C22_ChunksAreSlices ==
    /\ [](upPc \in {"chunk", "update"}
            => LET done == Len(pending_batches) - Len(batches_to_process)
                   size == Len(current_batch_chunk)
               IN  /\ size <= COMMIT_MAX_BATCHES
                   /\ size <= done
                   /\ batches_to_process =
                          SubSeq(pending_batches, done + 1, Len(pending_batches))
                   /\ current_batch_chunk = SubSeq(pending_batches, done - size + 1, done)
                   /\ Cardinality(Range(pending_batches)) = Len(pending_batches))
    /\ [][batches_to_process' # batches_to_process /\ upPc = "chunk"
             => LET size == Len(current_batch_chunk')
                IN  /\ size \in 1..COMMIT_MAX_BATCHES
                    /\ current_batch_chunk' = SubSeq(batches_to_process, 1, size)
                    /\ batches_to_process' =
                           SubSeq(batches_to_process, size + 1, Len(batches_to_process))
                    /\ pending_batches' = pending_batches]_vars

\* the second chunk of a pass has been uploaded after a full first chunk
C22_Witness ==
    /\ upPc = "chunk"
    /\ Len(pending_batches) > COMMIT_MAX_BATCHES
    /\ batches_to_process = <<>>
    /\ Len(processed_batches) = Len(pending_batches)
    /\ current_batch_chunk =
           SubSeq(pending_batches, COMMIT_MAX_BATCHES + 1, Len(pending_batches))
    /\ files_to_upload > 0

\* the request is a commit or a single upload that is not followed by a
\* fallback
Leaf(e) == e.kind = "file" \/ e.answer = "ok"

\* C23: after upload_folder of a file set was rejected for its file count,
\* the set is not sent again as a folder; a set above the floor is cut into
\* two non-empty halves, the first sent next and the second after it, a set
\* at or below the floor is sent file by file; the requests of a call number
\* at most three per file, and in a call that returns every file is in
\* exactly one leaf request (in at most one when the call raised).
C23_SplitOnFileCount ==
    upload.log # <<>>
        => LET Log == upload.log
           IN  /\ Len(Log) <= 3 * files_to_upload
               /\ \A f \in 1..files_to_upload :
                     LET leaves == {i \in 1..Len(Log) :
                                       Leaf(Log[i]) /\ f \in Log[i].lo..Log[i].hi}
                     IN  IF upload.raised THEN Cardinality(leaves) <= 1
                         ELSE Cardinality(leaves) = 1
               /\ \A i \in 1..Len(Log) :
                     Log[i].answer = "file_count"
                        => LET lo == Log[i].lo
                               hi == Log[i].hi
                               n == hi - lo + 1
                               m == n \div 2
                           IN  /\ Log[i].kind = "folder"
                               /\ \A j \in (i + 1)..Len(Log) :
                                     Log[j].lo = lo /\ Log[j].hi = hi => Log[j].kind = "file"
                               /\ IF n > SPLIT_FLOOR
                                  THEN /\ m >= 1
                                       /\ n - m >= 1
                                       /\ i < Len(Log)
                                       /\ Log[i + 1].kind = "folder"
                                       /\ Log[i + 1].lo = lo
                                       /\ Log[i + 1].hi = lo + m - 1
                                       /\ \/ upload.raised
                                          \/ \E j \in (i + 2)..Len(Log) :
                                                /\ Log[j].kind = "folder"
                                                /\ Log[j].lo = lo + m
                                                /\ Log[j].hi = hi
                                  ELSE /\ i + n <= Len(Log)
                                       /\ \A f \in lo..hi :
                                             /\ Log[i + 1 + f - lo].kind = "file"
                                             /\ Log[i + 1 + f - lo].lo = f
                                             /\ Log[i + 1 + f - lo].hi = f

\* a call that returned after a set of four or more files was rejected, cut
\* in halves, and a set at the floor was rejected and sent file by file
C23_Witness ==
    /\ ~upload.raised
    /\ upload.total = files_to_upload
    /\ \E i, j \in 1..Len(upload.log) :
          /\ upload.log[i].answer = "file_count"
          /\ upload.log[i].hi - upload.log[i].lo + 1 >= 4
          /\ upload.log[j].answer = "file_count"
          /\ upload.log[j].hi - upload.log[j].lo + 1 <= SPLIT_FLOOR

\* C24: names are gathered for success_batchs only from a chunk whose upload
\* call sent every record of the chunk, and success_batchs grows by the
\* gathered names only.
C24_CommittedOnlyIfUploaded ==
    [][/\ processed_batches' # processed_batches /\ upPc = "chunk"
             => ~upload'.raised /\ upload'.uploaded = upload'.total
       /\ Range(success_batchs') \ Range(success_batchs) \subseteq Range(processed_batches)]_vars

\* C25: an upload_folder that was refused for the rate limit is followed by
\* exactly one retry of the same files, and there is no other retry; a retry
\* that fails ends the call with an exception; after an exception the loop
\* is past its chunks although names are left to process, nothing is
\* gathered for success_batchs, and when the iteration ends the chunk's
\* names are in pending_batches and not in success_batchs.
C25_RateLimitRetriedOnce ==
    /\ [](LET Log == upload.log
          IN  /\ \A i \in 1..Len(Log) :
                    /\ Log[i].answer = "rate_limit"
                          => /\ Log[i].kind = "folder"
                             /\ i < Len(Log)
                             /\ Log[i + 1].kind = "retry"
                             /\ Log[i + 1].lo = Log[i].lo
                             /\ Log[i + 1].hi = Log[i].hi
                    /\ Log[i].kind = "retry"
                          => /\ i > 1
                             /\ Log[i - 1].answer = "rate_limit"
                             /\ Log[i].answer = "fail" => i = Len(Log) /\ upload.raised
              /\ upload.raised
                    => /\ upPc = "update"
                       /\ batches_to_process # <<>>
                       /\ processed_batches = <<>>
                       /\ Range(current_batch_chunk) \subseteq Range(pending_batches)
                       /\ Range(current_batch_chunk) \cap Range(success_batchs) = {})
    /\ [][upload.raised /\ upPc' = "poll"
             => /\ Range(current_batch_chunk) \subseteq Range(pending_batches')
                /\ Range(current_batch_chunk) \cap Range(success_batchs') = {}]_vars

\* a call in which one refused request was retried and accepted and a later
\* one was retried and refused again
C25_Witness ==
    /\ upload.raised
    /\ upPc = "update"
    /\ \E i, j \in 1..Len(upload.log) :
          /\ i < j
          /\ upload.log[i].kind = "retry"
          /\ upload.log[i].answer = "ok"
          /\ upload.log[j].kind = "retry"
          /\ upload.log[j].answer = "fail"

\* C26: every artifact that is in pending_batches is eventually in
\* success_batchs.
C26_EventuallyCommitted ==
    \A k \in 1..MaxArtifacts :
        (BatchFileName(k) \in Range(pending_batches))
            ~> (BatchFileName(k) \in Range(success_batchs))

\* C27: a name gathered for success_batchs in a pass of the chunk loop is
\* the name of a file that the pass could read in full.
C27_OnlyReadFilesCommitted ==
    [][upPc = "chunk"
          => \A b \in Range(processed_batches') \ Range(processed_batches) : Readable(b)]_vars

(***************************************************************************)
(* The rotation lock                                                       *)
(***************************************************************************)

\* C31: the lock is held by at most one thread and only inside one of the
\* with blocks; a thread that builds a transport, executes a request or
\* sleeps does not hold it; and a thread waiting at a with statement
\* eventually enters the block.
C31_ShortCriticalSections ==
    /\ [](/\ Cardinality({t \in Threads : thr[t].holds}) <= 1
          /\ \A t \in Threads :
                /\ thr[t].holds
                      => thr[t].pc \in {"service_in", "switch_in", "consume_in", "status_in"}
                /\ thr[t].pc \in {"build", "execute", "sleep"} => ~thr[t].holds)
    /\ \A t \in Threads : (thr[t].pc \in WaitPcs) ~> thr[t].holds

\* a thread waits at a with statement while another thread is inside a block
C31_Witness ==
    \E t, u \in Threads :
        /\ thr[t].pc \in WaitPcs
        /\ thr[u].holds
        /\ thr[u].pc = "switch_in"

(***************************************************************************)
(* The executor of a batch                                                 *)
(***************************************************************************)

\* C32: at most min(len(batch), WorkerCap) tasks run at a time and every
\* task is a task of the current batch; the next batch is submitted, and the
\* stall check of a batch is made, only when every task of the current batch
\* is done and its result has been handled exactly once.
C32_OneBatchInFlight ==
    /\ [](/\ Cardinality(Running) <= WorkerCap
          /\ Cardinality(Running) <= Len(batch)
          /\ runPc \in {"collect", "saving"} => DOMAIN thr = Range(batch)
          /\ \A u \in DOMAIN thr :
                /\ thr[u].pc # "done" => u \in Range(batch) /\ u \in inflight
                /\ thr[u].collected <= 1
                /\ thr[u].collected = 0 <=> u \in inflight)
    /\ [][batch_index' # batch_index \/ empty_batches_count' # empty_batches_count
              \/ (runPc = "collect" /\ runPc' \in {"dispatch", "finalize"})
             => \A u \in DOMAIN thr : thr[u].pc = "done" /\ thr[u].collected = 1]_vars

\* a batch larger than the cap: WorkerCap tasks run while a task of the batch
\* is still queued and another batch waits
C32_Witness ==
    /\ Len(batch) > WorkerCap
    /\ Cardinality(Running) = WorkerCap
    /\ \E u \in DOMAIN thr : thr[u].pc = "queued"
    /\ batches # <<>>

(***************************************************************************)
(* Discovery and the queue of the uploader                                 *)
(***************************************************************************)

\* the artifact files that are in neither success_batchs nor pending_batches
Fresh == {f \in resultsDir : f \notin Range(success_batchs) \cup Range(pending_batches)}

\* C33: the discovery of an iteration appends to pending_batches every
\* artifact file that is in neither list when there are at least
\* LOAD_BATCHES_TRESHOLD of them, each once and behind the names already
\* queued, and leaves pending_batches as it is when there are fewer.
C33_DiscoveryThreshold ==
    [][(upPc = "poll" /\ loopVars' # loopVars)
          => IF Cardinality(Fresh) >= LOAD_BATCHES_TRESHOLD
             THEN /\ Len(pending_batches') = Len(pending_batches) + Cardinality(Fresh)
                  /\ SubSeq(pending_batches', 1, Len(pending_batches)) = pending_batches
                  /\ Range(pending_batches') = Range(pending_batches) \cup Fresh
             ELSE pending_batches' = pending_batches]_vars

\* a new file is held back while names are queued, after an earlier
\* discovery has taken the files of its time
C33_Witness ==
    /\ upPc = "poll"
    /\ pending_batches # <<>>
    /\ Cardinality(Fresh) > 0
    /\ Cardinality(Fresh) < LOAD_BATCHES_TRESHOLD

\* C34: the folder committed for a chunk holds no file whose path is in the
\* cached listing of the remote store.
C34_CachedPathsSkipped == upPc = "upload" => temp_dir \cap current_repo_files = {}

(***************************************************************************)
(* The two scheduler variants                                              *)
(***************************************************************************)

\* C35: when a run of main_yt_api.main has gone through its whole work list,
\* main_yt_dlp.main started with the same work list, checkpoint and batch
\* files, and with data for the same items, ends with the same checkpoint
\* set and has written an artifact for the same batches: as many artifacts,
\* of the same sizes and success counts.
C35_VariantsAgree ==
    (runPc = "finished" /\ ~halted)
        => LET r == yt_dlp_main(flat_video_list, loaded, combined_results, batch_size,
                                dirAtInit)
           IN  /\ ~r.raised
               /\ r.processed_urls = processed_urls
               /\ [i \in DOMAIN r.artifacts |->
                      [size |-> r.artifacts[i].size, success |-> r.artifacts[i].success]]
                      = [i \in DOMAIN batches_index |->
                            [size |-> batches_index[i].size,
                             success |-> batches_index[i].success]]

(***************************************************************************)
(* The halt on an exhausted pool                                           *)
(***************************************************************************)

\* the first run of main(): no aggregate has been written
FirstRun == runPc # "init" /\ aggregate = NoAggregate

\* C36: once the pool is fully exhausted, with k batches dispatched so far,
\* and no fetch succeeds from then on, the loop is not at its head again
\* after three further batches: the run halts when the third of them ends
\* at the latest, and no batch beyond k + MAX_EMPTY_BATCHES is dispatched.
C36_HaltsOnExhaustedPool ==
    \A k \in 0..NWork : \A S \in SUBSET WorkUrls :
        [](  (FirstRun /\ are_all_keys_exhausted /\ batch_index = k /\ combined_results = S)
             => []( (FirstRun /\ combined_results = S)
                    => /\ batch_index <= k + MAX_EMPTY_BATCHES
                       /\ runPc = "dispatch" => batch_index < k + MAX_EMPTY_BATCHES ) )

\* the pool was exhausted by the workers during three batches without a
\* success: the run has halted without a forced rotation and a batch is left
C36_Witness ==
    /\ halted
    /\ runPc = "finalize"
    /\ are_all_keys_exhausted
    /\ forceCalls = 0
    /\ batch_index = MAX_EMPTY_BATCHES
    /\ empty_batches_count = MAX_EMPTY_BATCHES
    /\ batches # <<>>

(***************************************************************************)
(* The usage counters                                                      *)
(***************************************************************************)

\* the sum of f over the set D of its arguments
RECURSIVE SumOver(_, _)
SumOver(f, D) ==
    IF D = {} THEN 0
    ELSE LET k == CHOOSE x \in D : TRUE
         IN  f[k] + SumOver(f, D \ {k})

\* C37: whatever the threads have recorded and however the pool has rotated,
\* quota_used is the sum of the counters of _quota_used_by_key, and only
\* credentials of the pool have a counter.
C37_UsageSum ==
    /\ quota_used = SumOver(quota_used_by_key, DOMAIN quota_used_by_key)
    /\ DOMAIN quota_used_by_key \subseteq 0..(nKeys - 1)

\* usage was recorded under two credentials, under one of them more than
\* once, while another thread is inside a call
C37_Witness ==
    /\ Cardinality(DOMAIN quota_used_by_key) >= 2
    /\ \E k \in DOMAIN quota_used_by_key : quota_used_by_key[k] >= 2
    /\ exhausted_keys # {}
    /\ \E t \in Threads : thr[t].pc \notin {"idle", "done"}

(***************************************************************************)
(* The two lists of the uploader                                           *)
(***************************************************************************)

\* no name is twice in the list l
NoDuplicate(l) == \A i, j \in DOMAIN l : l[i] = l[j] => i = j

\* C38: when an iteration of the uploader loop begins, no name is in both
\* pending_batches and success_batchs and none is twice in either, whatever
\* discoveries, commits and failed commits came before.
C38_ListsDisjoint ==
    upPc = "poll"
        => /\ Range(pending_batches) \cap Range(success_batchs) = {}
           /\ NoDuplicate(pending_batches)
           /\ NoDuplicate(success_batchs)

\* an iteration begins after a commit that moved the names of a chunk to
\* success_batchs and left the rest of the queue, whose commit failed or was
\* not made, queued
C38_Witness ==
    /\ upPc = "poll"
    /\ Len(success_batchs) >= 2
    /\ pending_batches # <<>>

(***************************************************************************)
(* The first commit of an uploader process                                 *)
(***************************************************************************)

\* C39: in a process that has committed nothing, the iteration whose
\* discovery makes pending_batches non-empty goes on to commit in that same
\* iteration, with the whole queue, however few names the queue holds and
\* however little time has passed since the process started.
C39_FirstCommitAtOnce ==
    [][(/\ upPc = "poll"
        /\ loopVars' # loopVars
        /\ pending_batches = <<>>
        /\ success_batchs = <<>>
        /\ recent_commit_ts = <<>>
        /\ pending_batches' # <<>>)
          => /\ upPc' = "chunk"
             /\ batches_to_process' = pending_batches'
             /\ clock' = clock]_vars

\* the first commit of the process is under way, with a queue below
\* COMMIT_MIN_BATCHES and before COMMIT_MAX_WAIT has passed since start-up
C39_Witness ==
    /\ upPc = "chunk"
    /\ success_batchs = <<>>
    /\ recent_commit_ts = <<>>
    /\ processed_batches = <<>>
    /\ batches_to_process = pending_batches
    /\ pending_batches # <<>>
    /\ Len(pending_batches) < COMMIT_MIN_BATCHES
    /\ now - Epoch < COMMIT_MAX_WAIT

(***************************************************************************)
(* Quota errors of the optional sub-requests                               *)
(***************************************************************************)

\* where a call is once the primary request has succeeded, in the order of
\* the code
SubRank(pc) ==
    CASE pc = "channel" -> 1
      [] pc = "channel_service" -> 2
      [] pc = "channel_retry" -> 3
      [] pc = "comments" -> 4
      [] pc = "comments_service" -> 5
      [] pc = "comments_retry" -> 6
      [] OTHER -> 7

\* the pool after a step is the pool after one _switch_to_next_key call
SwitchedOnce ==
    /\ exhausted_keys' = exhausted_keys \cup {current_key_index}
    /\ current_key_index' =
           IF Available(exhausted_keys \cup {current_key_index}) # {}
           THEN Min(Available(exhausted_keys \cup {current_key_index}))
           ELSE current_key_index
    /\ UNCHANGED <<nKeys, quota_used, quota_used_by_key>>

\* C40: a step of a sub-request never leads back to the primary request.
\* The first try of a sub-request either leaves the rotation state alone or
\* changes it as one _switch_to_next_key call does, the call a failed
\* primary request makes, and goes on to one retry exactly when a credential
\* was left; the retry leaves the rotation state alone and is followed by
\* the next stage of the call, never by the same sub-request again.
C40_SubRequestRotation ==
    [][\A t \in Threads :
          (SubRank(thr[t].pc) < 7 /\ thr'[t] # thr[t])
             => /\ thr'[t].pc \notin {"enter", "primary"}
                /\ thr'[t].pc # "done" => SubRank(thr'[t].pc) >= SubRank(thr[t].pc)
                /\ thr'[t].nPrimary = thr[t].nPrimary
                /\ thr'[t].attempts = thr[t].attempts
                /\ IF thr[t].pc \in {"channel", "comments"}
                   THEN \/ /\ UNCHANGED <<exhausted_keys, current_key_index, switchCalls>>
                           /\ SubRank(thr'[t].pc) # SubRank(thr[t].pc) + 1
                        \/ /\ switchCalls < nKeys => switchCalls' = switchCalls + 1
                           /\ SwitchedOnce
                           /\ IF Available(exhausted_keys') # {}
                              THEN SubRank(thr'[t].pc) = SubRank(thr[t].pc) + 1
                              ELSE SubRank(thr'[t].pc) > SubRank(thr[t].pc) + 2
                   ELSE /\ UNCHANGED <<exhausted_keys, current_key_index, switchCalls>>
                        /\ thr[t].pc \in {"channel_service", "channel_retry", "comments_service"}
                              => SubRank(thr'[t].pc) > SubRank(thr[t].pc)
                        /\ thr[t].pc = "channel_retry" => thr'[t].pc = "comments"]_vars

\* a traced call has made its primary request once; the channel request and
\* the comments request each failed on quota and rotated the pool once, and
\* the comments are being fetched again under the third credential
C40_Witness ==
    \E t \in Threads :
        /\ thr[t].traced
        /\ thr[t].pc = "comments_retry"
        /\ thr[t].svc = 2
        /\ thr[t].nPrimary = 1
        /\ thr[t].nQuota = 0
        /\ exhausted_keys = {0, 1}
        /\ switchCalls = 2
        /\ \E k \in DOMAIN quota_used_by_key : k = 1 /\ quota_used_by_key[k] >= 1

====
